---- MODULE Spec2Model ----
(***************************************************************************)
(* A model of the check-in scripts of this repository: the Env shim        *)
(* (environment detection, key-value store with compound addresses, HTTP   *)
(* transport), the Request facade with its timeout race, and the account   *)
(* loop of main.  Source: src/adapter.js and                               *)
(* the second script under src/SCRIPTS-BACKUP (the Env and Request lines   *)
(* of both files are identical).                                           *)
(***************************************************************************)
EXTENDS Integers, Sequences, FiniteSets, TLC

VARIABLES
  markers,    \* the ambient host globals that getEnv probes
  store,      \* the backing store: key -> stored text
  nSets,      \* number of setdata calls made so far
  lastSet,    \* the last setdata call: value, address, returned flag, store before
  lastGet,    \* the last getdata call since the last setdata: address, result
  wpc,        \* two writers sharing the store: where each is in its setdata
  wpath,      \* the path each writer sets
  wread,      \* the container text each writer has read
  wret,       \* what each writer's setdata returned
  wsaw,       \* the writers that had written when each writer read
  req,        \* the RequestSpec passed to Request by UserInfo.fetch
  sent,       \* the options object handed to the native transport
  timer,      \* the setTimeout of the race: state and delay in ms
  transport,  \* the native call: state, latency, what it reports
  outcome,    \* the promise returned by Request: state, value, who settled it
  first,      \* which entrant of the race settled first
  errLogs,    \* number of [ERROR] lines Request has logged
  rejections, \* number of rejections delivered to the caller of Request
  fetchpc,    \* UserInfo.fetch: idle, awaiting Request, returned
  fetchRet,   \* what UserInfo.fetch returned
  ckStatus,   \* ckStatus of the account whose fetch made the request
  fetchLogs,  \* number of lines the catch block of UserInfo.fetch has logged
  script,        \* which of the two scripts runs: "fyhs" (adapter.js) or "sfsy"
  userList,      \* $.userList: the accounts built by checkEnv
  pos,           \* position of main's for-of loop in userList
  pc,            \* the call main is about to await for the current account
  stepNo,        \* loop counter inside the current account's workflow
  tasks,         \* sfsy: the part of taskList main has yet to go through
  ck,            \* ckStatus of every account
  notifyMsg,     \* $.notifyMsg: the summary lines
  succCount,     \* $.succCount
  title,         \* $.title
  notified,      \* how sendMsg dispatched the summary
  mainState,     \* main is running, has returned, or has thrown
  authFailed,    \* accounts whose ckStatus was false right after the probe
  stepFailed,    \* accounts with a request that did not answer well after it
  reqT,          \* the argument t of a call of Request, field by field
  native,        \* the options object the native transport receives for it
  reply,         \* the response of the transport and what Request makes of it
  lsIn,          \* the arguments of a call of lodash_set
  lsOut,         \* the document after the call, and its serialization
  runIn,         \* what a run starts from: the trigger and the stored accounts
  runpc,         \* where the entry point of the script is
  inflight,      \* the Requests getNotice has started, each pending or settled
  calls,         \* the calls of msg and done and the host calls they made, in order
  logs,          \* this.logs, less the lines of the workflow steps
  mute,          \* the isMute and isMuteLog fields of $
  probed,        \* what a call of getEnv returned
  other,         \* the batch run a second time: the state of the run not at turn
  turn,          \* which of the two runs takes the next step of main
  slot,          \* the upstream responses the first run's last step was given
  capture,       \* the last run of getCookie: its trigger and the store before it
  penv,          \* process.env: the variables the QL_ENVS adapter may set
  loading        \* the load of adapter.js: where its first lines are, QL_ENVS,
                 \* the keys the loop has yet to visit, process.env before

kvVars == <<nSets, lastSet, lastGet>>
wVars == <<wpc, wpath, wread, wret, wsaw>>
reqVars == <<req, sent, timer, transport, outcome, first, errLogs, rejections,
             fetchpc, fetchRet, ckStatus, fetchLogs>>
mainVars == <<script, userList, pos, pc, stepNo, tasks, ck, notifyMsg, succCount, title,
              notified, mainState, authFailed, stepFailed>>
fnVars == <<reqT, native, reply, lsIn, lsOut>>
runVars == <<runIn, runpc, inflight, calls, logs, mute, probed>>
twiceVars == <<other, turn, slot, capture, penv, loading>>
vars == <<markers, store, kvVars, wVars, reqVars, mainVars, fnVars, runVars, twiceVars>>

(***************************************************************************)
(* Environment detection.                                                  *)
(***************************************************************************)
Markers == {"surge", "stash", "module", "task", "loon", "rocket"}

\* getEnv(): nested conditional, first match wins; undefined when none matches
getEnv(m) ==
  IF "surge" \in m THEN "Surge"
  ELSE IF "stash" \in m THEN "Stash"
  ELSE IF "module" \in m THEN "Node.js"
  ELSE IF "task" \in m THEN "Quantumult X"
  ELSE IF "loon" \in m THEN "Loon"
  ELSE IF "rocket" \in m THEN "Shadowrocket"
  ELSE "undefined"

isNode(m) == getEnv(m) = "Node.js"
\* the global process exists under Node.js only
HasProcess(m) == "module" \in m
\* the script gets past its first lines: adapter.js reads process.env.QL_ENVS
\* in line 1, outside any test of the host
Loads(sc, m) == sc = "fyhs" => HasProcess(m)
isQuanX(m) == getEnv(m) = "Quantumult X"
isSurge(m) == getEnv(m) = "Surge"
isLoon(m) == getEnv(m) = "Loon"

\* the hosts whose store is $persistentStore
PersistentStoreEnvs == {"Surge", "Loon", "Stash", "Shadowrocket"}

(***************************************************************************)
(* JavaScript values.  One record shape for all of them:                   *)
(*   t  the type tag, s  the content of a string or number,                *)
(*   f  the own properties (keys are strings; an array keeps its elements  *)
(*      under the keys "0", "1", ... next to any named property),          *)
(*   n  the length of an array.                                            *)
(***************************************************************************)
NoProps == <<>>
Undef == [t |-> "undef", s |-> "", f |-> NoProps, n |-> 0]
JNull == [t |-> "null", s |-> "", f |-> NoProps, n |-> 0]
Str(x) == [t |-> "str", s |-> x, f |-> NoProps, n |-> 0]
Num(x) == [t |-> "num", s |-> x, f |-> NoProps, n |-> 0]
Obj(props) == [t |-> "obj", s |-> "", f |-> props, n |-> 0]
Arr(props, len) == [t |-> "arr", s |-> "", f |-> props, n |-> len]
\* a string whose content is the JSON serialization of document d
JsonStr(d) == [t |-> "jsontext", s |-> "", f |-> [k \in {"doc"} |-> d], n |-> 0]

\* Object(x) === x
IsObject(x) == x.t \in {"obj", "arr"}

\* the canonical array-index property names used by the model
IndexKeys == {"0", "1", "2"}
IdxOf(k) == CASE k = "0" -> 0 [] k = "1" -> 1 [] k = "2" -> 2 [] OTHER -> -1
IdxKey(i) == CASE i = 0 -> "0" [] i = 1 -> "1" [] i = 2 -> "2" [] OTHER -> "?"

\* the string contents the model uses, with their lengths
StrLen(x) == CASE x = "" -> 0 [] x = "h" -> 1 [] OTHER -> 2

\* Object(o)[k]: property read with boxing of primitives
PropOf(o, k) ==
  CASE o.t \in {"obj", "arr"} -> IF k \in DOMAIN o.f THEN o.f[k] ELSE Undef
    [] o.t = "str" -> IF k \in IndexKeys /\ IdxOf(k) < StrLen(o.s) THEN Str("h") ELSE Undef
    [] OTHER -> Undef

\* o[k] = v on an object or an array (an index key extends the array's length)
Assign(o, k, v) ==
  [o EXCEPT !.f = [x \in (DOMAIN o.f) \cup {k} |-> IF x = k THEN v ELSE o.f[x]],
            !.n = IF o.t = "arr" /\ k \in IndexKeys /\ IdxOf(k) + 1 > o.n
                  THEN IdxOf(k) + 1 ELSE o.n]

(***************************************************************************)
(* Paths and addresses are sequences of characters.  A name or a number is *)
(* one element; ".", "[", "]" and "@" are the separators the code's        *)
(* regular expressions look for.                                           *)
(***************************************************************************)
Digits == IndexKeys

\* the string made of a run of elements (the model's runs have one element)
JoinRun(run) ==
  IF Len(run) = 0 THEN "" ELSE IF Len(run) = 1 THEN run[1] ELSE "<run>"

\* e.replace(/\[(\d+)\]/g, ".$1")
RECURSIVE ReplaceBracketIndex(_)
ReplaceBracketIndex(e) ==
  IF Len(e) = 0 THEN <<>>
  ELSE IF Len(e) >= 3 /\ e[1] = "[" /\ e[2] \in Digits /\ e[3] = "]"
       THEN <<".", e[2]>> \o ReplaceBracketIndex(SubSeq(e, 4, Len(e)))
       ELSE <<e[1]>> \o ReplaceBracketIndex(Tail(e))

\* String.prototype.split("."): the pieces between dots, empty pieces kept
RECURSIVE SplitDots(_, _)
SplitDots(e, run) ==
  IF Len(e) = 0 THEN <<JoinRun(run)>>
  ELSE IF e[1] = "." THEN <<JoinRun(run)>> \o SplitDots(Tail(e), <<>>)
       ELSE SplitDots(Tail(e), Append(run, e[1]))

\* e.toString().match(/[^.[\]]+/g) || []: the maximal runs free of . [ ]
RECURSIVE MatchSegments(_, _)
MatchSegments(e, run) ==
  IF Len(e) = 0 THEN (IF Len(run) = 0 THEN <<>> ELSE <<JoinRun(run)>>)
  ELSE IF e[1] \in {".", "[", "]"}
       THEN (IF Len(run) = 0 THEN <<>> ELSE <<JoinRun(run)>>) \o MatchSegments(Tail(e), <<>>)
       ELSE MatchSegments(Tail(e), Append(run, e[1]))

\* lodash_get(t, e, s)
RECURSIVE WalkGet(_, _, _)
WalkGet(o, segs, dflt) ==
  IF Len(segs) = 0 THEN o
  ELSE LET nxt == PropOf(o, segs[1])
       IN IF nxt = Undef THEN dflt ELSE WalkGet(nxt, Tail(segs), dflt)

lodash_get(t, e, dflt) == WalkGet(t, SplitDots(ReplaceBracketIndex(e), <<>>), dflt)

\* ToNumber of a path segment: the numeric strings among the model's
\* segments with their values, every other segment is NaN
NaN == [nan |-> TRUE, v |-> 0]
Number(i) == [nan |-> FALSE, v |-> i]
ToNumber(x) ==
  CASE x \in IndexKeys -> Number(IdxOf(x))
    [] x = "01" -> Number(1)
    [] x = "1e2" -> Number(100)
    [] x = "-1" -> Number(-1)
    [] OTHER -> NaN

\* Math.abs(x)
MathAbs(x) == IF x.nan THEN NaN ELSE Number(IF x.v < 0 THEN 0 - x.v ELSE x.v)

\* x >> 0: ToInt32, NaN becomes 0 (the model's numbers are below 2^31)
ToInt32(x) == IF x.nan THEN 0 ELSE x.v

\* Math.abs(x) >> 0 == +x for a path segment x
LooksLikeIndex(x) ==
  LET n == ToNumber(x)
  IN ~n.nan /\ ToInt32(MathAbs(n)) = n.v

\* the reduce of lodash_set: walk or create the intermediate containers, then
\* assign the last segment
\* (mutant) every intermediate container is created afresh
IntermediateFresh(cur, nextSeg) ==
  IF LooksLikeIndex(nextSeg) THEN Arr(NoProps, 0) ELSE Obj(NoProps)

\* Object(t[s]) === t[s] ? t[s] : t[s] = Math.abs(e[i + 1]) >> 0 == +e[i + 1] ? [] : {}
Intermediate(cur, nextSeg) ==
  IF IsObject(cur) THEN cur
  ELSE IF LooksLikeIndex(nextSeg) THEN Arr(NoProps, 0) ELSE Obj(NoProps)

RECURSIVE WalkSet(_, _, _)
WalkSet(o, segs, v) ==
  IF Len(segs) = 1 THEN Assign(o, segs[1], v)
  ELSE Assign(o, segs[1],
              WalkSet(Intermediate(PropOf(o, segs[1]), segs[2]), Tail(segs), v))

\* lodash_set(t, e, s): a primitive or null target is returned untouched
lodash_set(t, e, v) ==
  IF ~IsObject(t) THEN t
  ELSE LET segs == MatchSegments(e, <<>>)
       IN IF Len(segs) = 0 THEN Assign(t, "undefined", v) ELSE WalkSet(t, segs, v)

(***************************************************************************)
(* JSON.  A stored text is Str(x) for a plain string that is not JSON, or  *)
(* JsonStr(d) for the serialization of document d.                         *)
(***************************************************************************)
\* what JSON.stringify keeps of a value: an array is serialized as its
\* elements 0..length-1 (holes become null), its named properties are
\* dropped; an object loses the properties whose value is undefined
RECURSIVE Serialized(_)
Serialized(d) ==
  CASE d.t = "obj" ->
         Obj([k \in {x \in DOMAIN d.f : d.f[x].t # "undef"} |-> Serialized(d.f[k])])
    [] d.t = "arr" ->
         Arr([k \in {IdxKey(i) : i \in 0 .. d.n - 1} |->
                IF k \in DOMAIN d.f THEN Serialized(d.f[k]) ELSE JNull], d.n)
    [] OTHER -> d

JSONstringify(d) == JsonStr(Serialized(d))

\* JSON.parse throws on text that is not JSON
ParseThrows(x) == x.t \notin {"jsontext", "null"}
JSONparse(x) == IF x.t = "jsontext" THEN x.f["doc"] ELSE JNull

\* JavaScript truthiness
Truthy(x) ==
  CASE x.t \in {"undef", "null"} -> FALSE
    [] x.t = "str" -> x.s # ""
    [] x.t = "num" -> x.s # "0"
    [] OTHER -> TRUE

(***************************************************************************)
(* The backing store.                                                      *)
(***************************************************************************)
Stored(st, key) == IF key \in DOMAIN st THEN st[key] ELSE Undef

\* getval(t)
getval(m, st, key) ==
  CASE getEnv(m) \in PersistentStoreEnvs \cup {"Quantumult X"} ->
         IF key \in DOMAIN st THEN st[key] ELSE JNull
    [] getEnv(m) = "Node.js" -> Stored(st, key)
    [] OTHER -> JNull          \* this.data is null: this.data && ... || null

Written(st, key, val) ==
  [k \in (DOMAIN st) \cup {key} |-> IF k = key THEN val ELSE st[k]]

\* (mutant) the write reports success and stores nothing
setvalDropped(m, st, val, key, wOk) == [st |-> st, ret |-> "true"]

\* setval(t, e): the store afterwards and the returned value.  wOk is the
\* outcome of the host's write (the native call returning false, or
\* writeFileSync throwing under Node.js)
setval(m, st, val, key, wOk) ==
  CASE getEnv(m) \in PersistentStoreEnvs \cup {"Quantumult X"} ->
         IF wOk THEN [st |-> Written(st, key, val), ret |-> "true"]
         ELSE [st |-> st, ret |-> "false"]
    [] getEnv(m) = "Node.js" ->
         IF wOk THEN [st |-> Written(st, key, val), ret |-> "true"]
         ELSE [st |-> st, ret |-> "throw"]
    [] OTHER -> [st |-> st, ret |-> "null"]

\* /^@/.test(t)
IsCompound(addr) == Len(addr) > 0 /\ addr[1] = "@"

\* /^@(.*?)\.(.*?)$/.exec(t): the split at the first dot
HasDot(addr) == \E i \in 1 .. Len(addr) : addr[i] = "."
FirstDot(addr) == CHOOSE i \in 1 .. Len(addr) :
                    addr[i] = "." /\ \A j \in 1 .. i - 1 : addr[j] # "."
ContainerOf(addr) == SubSeq(addr, 2, FirstDot(addr) - 1)
PathOf(addr) == SubSeq(addr, FirstDot(addr) + 1, Len(addr))

\* getdata(t)
getdata(m, st, addr) ==
  LET e == getval(m, st, addr)
  IN IF ~IsCompound(addr) THEN e
     ELSE LET s == ContainerOf(addr)
              i == PathOf(addr)
              o == IF Len(s) > 0 THEN getval(m, st, s) ELSE Str("")
          IN IF ~Truthy(o) THEN e
             ELSE IF ParseThrows(o) THEN Str("")
             ELSE LET t == JSONparse(o)
                  IN IF Truthy(t) THEN lodash_get(t, i, Str("")) ELSE e

\* (mutant) no catch block around the parse of the container text
setdataWriteNoCatch(m, st, r, v, addr, wOk) ==
  IF ~IsCompound(addr) THEN setval(m, st, Str(v), addr, wOk)
  ELSE LET i == ContainerOf(addr)
           a == IF Len(i) > 0
                THEN (IF r = JSONstringify(JNull) THEN JNull
                      ELSE IF Truthy(r) THEN r ELSE JSONstringify(Obj(NoProps)))
                ELSE JSONstringify(Obj(NoProps))
       IN IF ParseThrows(a) THEN [st |-> st, ret |-> "throw"]
          ELSE setval(m, st, JSONstringify(lodash_set(JSONparse(a), PathOf(addr), Str(v))),
                      i, wOk)

\* setdata(t, e) from the point where the container text r has been read
setdataWrite(m, st, r, v, addr, wOk) ==
  IF ~IsCompound(addr) THEN setval(m, st, Str(v), addr, wOk)
  ELSE LET i == ContainerOf(addr)
           o == PathOf(addr)
           a == IF Len(i) > 0
                THEN (IF r = JSONstringify(JNull) THEN JNull
                      ELSE IF Truthy(r) THEN r ELSE JSONstringify(Obj(NoProps)))
                ELSE JSONstringify(Obj(NoProps))
           tried == setval(m, st, JSONstringify(lodash_set(JSONparse(a), o, Str(v))), i, wOk)
           again == setval(m, st, JSONstringify(lodash_set(Obj(NoProps), o, Str(v))), i, wOk)
       IN IF ~ParseThrows(a) /\ tried.ret # "throw" THEN tried ELSE again

\* setdata(t, e)
setdata(m, st, v, addr, wOk) ==
  setdataWrite(m, st, IF IsCompound(addr) THEN getval(m, st, ContainerOf(addr)) ELSE Undef,
               v, addr, wOk)

(***************************************************************************)
(* The key-value store as a state machine: setdata and getdata calls on a  *)
(* store that starts with an arbitrary text under the container "c".       *)
(***************************************************************************)
MaxSets == 1

\* the host globals of each environment the scripts name, and of none
MarkerSets == {{}} \cup {{x} : x \in Markers}

Addr(c, p) == <<"@", c, ".">> \o p
FlatKey == <<"k">>

KVPaths == {
  <<"a">>, <<"b">>,
  <<"a", ".", "b">>,
  <<"a", ".", "0">>,
  <<"a", "[", "0", "]">>,
  <<"a", "[", "1", "]">>,
  <<"1">>,
  <<"[", "0", "]">>,
  <<"[", "0", "]", ".", "a">>,
  <<"a", "[", "0", "]", ".", "b">> }

KVAddrs == {Addr("c", p) : p \in KVPaths} \cup {FlatKey}

KVValues == {"v1", ""}

P1(k, v) == [x \in {k} |-> v]
P2(k1, v1, k2, v2) == [x \in {k1, k2} |-> IF x = k1 THEN v1 ELSE v2]

\* what the container may hold at the start
InitTexts == {
  Str(""), Str("{bad"),
  JsonStr(JNull), JsonStr(Str("x")), JsonStr(Num("5")),
  JsonStr(Obj(NoProps)),
  JsonStr(Obj(P2("a", Str("x"), "b", Str("y")))),
  JsonStr(Obj(P2("a", Obj(P2("a", Str("x"), "b", Str("y"))), "b", Str("y")))),
  JsonStr(Obj(P2("a", Arr(P1("0", Str("x")), 1), "b", JNull))),
  JsonStr(Arr(P2("0", Str("x"), "1", Obj(P1("a", Str("y")))), 2)) }

OtherKey == <<"d">>
OtherText == JsonStr(Obj(P1("a", Str("x"))))

NoSet == [v |-> "", addr |-> <<>>, ret |-> "none", pre |-> <<>>, wOk |-> TRUE]
NoGet == [addr |-> <<>>, res |-> Undef]

NoReq == [url |-> "", type |-> "none", hasBody |-> FALSE, timeout |-> 0,
          followRedirect |-> "absent"]
NoSent == [method |-> "none", timeout |-> 0, autoRedirect |-> "absent",
           redirection |-> "absent"]
NoTimer == [state |-> "none", delay |-> 0]
NoTransport == [state |-> "none", never |-> FALSE, ms |-> 0, reports |-> "none"]
NoOutcome == [state |-> "none", value |-> "none", by |-> "none"]

\* no request has been made
ReqIdle ==
  /\ req = NoReq
  /\ sent = NoSent
  /\ timer = NoTimer
  /\ transport = NoTransport
  /\ outcome = NoOutcome
  /\ first = "none"
  /\ errLogs = 0
  /\ rejections = 0
  /\ fetchpc = "idle"
  /\ fetchRet = "none"
  /\ ckStatus = TRUE
  /\ fetchLogs = 0

NoTitle == [total |-> 0, succ |-> 0, failed |-> 0]

NoCall == [made |-> FALSE]

\* no call of Request or lodash_set is being followed
FnIdle ==
  /\ reqT = NoCall
  /\ native = NoCall
  /\ reply = NoCall
  /\ lsIn = NoCall
  /\ lsOut = NoCall

\* the entry point has not been started, msg and getEnv have not been called
NoRunIn == [request |-> "none", userCookie |-> <<>>]
Unmuted == [isMute |-> FALSE, isMuteLog |-> FALSE]
RunIdle ==
  /\ runIn = NoRunIn
  /\ runpc = "none"
  /\ inflight = <<>>
  /\ calls = <<>>
  /\ logs = <<>>
  /\ mute = Unmuted
  /\ probed = "none"

\* the batch is run once
NoInputs == [w1 |-> "good", w2 |-> "good", flag |-> FALSE, list |-> <<>>]
NoCapture == [n |-> 0, method |-> "none", cred |-> FALSE, id |-> Undef, wOk |-> TRUE,
              before |-> <<>>]
NoLoading == [pc |-> "none", ql |-> Undef, keys |-> <<>>, before |-> <<>>]
TwiceIdle ==
  /\ other = "none"
  /\ turn = "once"
  /\ slot = NoInputs
  /\ capture = NoCapture
  /\ penv = <<>>
  /\ loading = NoLoading

\* main has not been started
MainIdle ==
  /\ script = "none"
  /\ userList = <<>>
  /\ pos = 0
  /\ pc = "none"
  /\ stepNo = 0
  /\ tasks = <<>>
  /\ ck = <<>>
  /\ notifyMsg = <<>>
  /\ succCount = 0
  /\ title = NoTitle
  /\ notified = "none"
  /\ mainState = "none"
  /\ authFailed = {}
  /\ stepFailed = {}

WIdle ==
  /\ wpc = [w \in {} |-> "idle"]
  /\ wpath = [w \in {} |-> <<>>]
  /\ wread = [w \in {} |-> Undef]
  /\ wret = [w \in {} |-> "none"]
  /\ wsaw = [w \in {} |-> {}]

KVInit ==
  /\ WIdle
  /\ ReqIdle
  /\ MainIdle
  /\ FnIdle
  /\ RunIdle
  /\ TwiceIdle
  /\ markers \in MarkerSets
  /\ \/ store = [k \in {OtherKey} |-> OtherText]
     \/ \E x \in InitTexts :
          store = [k \in {OtherKey, <<"c">>} |-> IF k = OtherKey THEN OtherText ELSE x]
  /\ nSets = 0
  /\ lastSet = NoSet
  /\ lastGet = NoGet

DoSetdata(v, addr, wOk) ==
  /\ nSets < MaxSets
  /\ LET r == setdata(markers, store, v, addr, wOk)
     IN /\ store' = r.st
        /\ lastSet' = [v |-> v, addr |-> addr, ret |-> r.ret, pre |-> store, wOk |-> wOk]
  /\ nSets' = nSets + 1
  /\ lastGet' = NoGet
  /\ UNCHANGED <<markers, wVars, reqVars, mainVars, fnVars, runVars, twiceVars>>

\* a read leaves the store as it is, so one read is recorded per store state:
\* any address on the initial store, the address just written after a write
DoGetdata(addr) ==
  /\ lastGet = NoGet
  /\ nSets > 0 => addr = lastSet.addr
  /\ lastGet' = [addr |-> addr, res |-> getdata(markers, store, addr)]
  /\ UNCHANGED <<markers, store, nSets, lastSet, wVars, reqVars, mainVars, fnVars, runVars, twiceVars>>

KVNext ==
  \/ \E v \in KVValues, addr \in KVAddrs, wOk \in BOOLEAN : DoSetdata(v, addr, wOk)
  \/ \E addr \in KVAddrs : DoGetdata(addr)

SpecKV == KVInit /\ [][KVNext]_vars

(***************************************************************************)
(* Properties of the key-value store.                                      *)
(***************************************************************************)
\* the value a document holds at a sequence of property names, Undef when
\* there is none
RECURSIVE At(_, _)
At(d, keys) ==
  IF Len(keys) = 0 THEN d
  ELSE IF IsObject(d) /\ keys[1] \in DOMAIN d.f THEN At(d.f[keys[1]], Tail(keys))
  ELSE Undef

\* a compound setdata reported success and the address was then read back
ReadBack ==
  /\ nSets > 0
  /\ IsCompound(lastSet.addr)
  /\ lastSet.ret = "true"
  /\ lastGet # NoGet
  /\ lastGet.addr = lastSet.addr

\* C1: round trip -- after setdata(v, '@c.p') has stored successfully,
\* getdata('@c.p') returns v, whatever the container held before.
C1_RoundTrip == ReadBack => lastGet.res = Str(lastSet.v)

\* the last call was a compound setdata on a container that held valid JSON
SetOnJson ==
  /\ nSets > 0
  /\ IsCompound(lastSet.addr)
  /\ getval(markers, lastSet.pre, ContainerOf(lastSet.addr)).t = "jsontext"

OldDoc == JSONparse(getval(markers, lastSet.pre, ContainerOf(lastSet.addr)))
NewDoc == JSONparse(getval(markers, store, ContainerOf(lastSet.addr)))
SetSegs == MatchSegments(PathOf(lastSet.addr), <<>>)

\* no storage key other than the container is written
OtherKeysKept ==
  /\ DOMAIN store \subseteq (DOMAIN lastSet.pre) \cup {ContainerOf(lastSet.addr)}
  /\ \A k \in (DOMAIN lastSet.pre) \ {ContainerOf(lastSet.addr)} :
       k \in DOMAIN store /\ store[k] = lastSet.pre[k]

\* every field beside the path keeps its value, at every level of the path
SiblingsKept ==
  \A i \in 1 .. Len(SetSegs) :
    LET pre == SubSeq(SetSegs, 1, i - 1)
    IN IsObject(At(OldDoc, pre)) =>
         \A k \in (DOMAIN At(OldDoc, pre).f) \ {SetSegs[i]} :
           At(NewDoc, Append(pre, k)) = At(OldDoc, Append(pre, k))

\* an existing container on the path stays a container of the same kind
ContainersKept ==
  \A i \in 0 .. Len(SetSegs) - 1 :
    LET pre == SubSeq(SetSegs, 1, i)
    IN IsObject(At(OldDoc, pre)) => At(NewDoc, pre).t = At(OldDoc, pre).t

\* a primitive or null stored at a proper prefix of the path is still there
PrefixValuesKept ==
  \A i \in 1 .. Len(SetSegs) - 1 :
    LET pre == SubSeq(SetSegs, 1, i)
    IN (At(OldDoc, pre) # Undef /\ ~IsObject(At(OldDoc, pre))) =>
         At(NewDoc, pre) = At(OldDoc, pre)

\* C2 (as amended): a compound setdata on a container holding valid JSON
\* leaves every sibling field at every level of the path unchanged, keeps
\* every existing container on the path, and writes no other storage key.
C2_FrameAmended ==
  SetOnJson => OtherKeysKept /\ SiblingsKept /\ ContainersKept

\* C2 (original): besides that, no existing value other than the one at p
\* is discarded.
C2_NoValueDiscarded ==
  SetOnJson => OtherKeysKept /\ SiblingsKept /\ ContainersKept /\ PrefixValuesKept

\* a nested field was stored in a document that has a sibling at both levels
C2_Witness ==
  /\ nSets > 0
  /\ lastSet.ret = "true"
  /\ lastSet.addr = Addr("c", <<"a", ".", "b">>)
  /\ <<"c">> \in DOMAIN store
  /\ store[<<"c">>].t = "jsontext"
  /\ At(JSONparse(store[<<"c">>]), <<"a", "b">>) = Str(lastSet.v)
  /\ At(JSONparse(store[<<"c">>]), <<"a", "a">>) = Str("x")
  /\ At(JSONparse(store[<<"c">>]), <<"b">>) = Str("y")

\* a compound address has been read
GotCompound == lastGet # NoGet /\ IsCompound(lastGet.addr)
GotText == getval(markers, store, ContainerOf(lastGet.addr))
GotSegs == MatchSegments(PathOf(lastGet.addr), <<>>)

\* C16: getdata('@c.p') returns the empty string when nothing is stored
\* under c and when the document under c lacks a segment of p.
C16_AbsentIsEmpty ==
  (GotCompound /\ (ContainerOf(lastGet.addr) \notin DOMAIN store
                   \/ (GotText.t = "jsontext" /\ At(JSONparse(GotText), GotSegs) = Undef)))
    => lastGet.res = Str("")

\* a text that is there and is not JSON
Malformed(x) == x.t = "str" /\ x.s # ""

\* d holds v at keys and nothing else (the holes of an array are null)
RECURSIVE OnlyPath(_, _, _)
OnlyPath(d, keys, v) ==
  IF keys = <<>> THEN d = v
  ELSE /\ IsObject(d)
       /\ keys[1] \in DOMAIN d.f
       /\ \A k \in (DOMAIN d.f) \ {keys[1]} : d.f[k] = JNull
       /\ OnlyPath(d.f[keys[1]], Tail(keys), v)

SetOnMalformed ==
  /\ nSets > 0
  /\ IsCompound(lastSet.addr)
  /\ Malformed(getval(markers, lastSet.pre, ContainerOf(lastSet.addr)))

\* C17: a container whose text is not JSON counts as empty: getdata gives
\* the empty string, and setdata, when the backend takes the write, returns
\* true and leaves a document holding p = v and nothing else.
C17_MalformedIsEmpty ==
  /\ (GotCompound /\ Malformed(GotText)) => lastGet.res = Str("")
  /\ (SetOnMalformed /\ lastSet.wOk) =>
       /\ lastSet.ret = "true"
       /\ getval(markers, store, ContainerOf(lastSet.addr)).t = "jsontext"
       /\ OnlyPath(NewDoc, SetSegs, Str(lastSet.v))

C17_Witness ==
  /\ SetOnMalformed /\ lastSet.wOk /\ lastSet.ret = "true"
  /\ lastSet.addr = Addr("c", <<"a", "[", "1", "]">>)
  /\ GotCompound /\ lastGet.res = Str(lastSet.v)

\* C18: a backend write that fails makes setdata return false, for a flat
\* key and for a compound address, and the store is as it was; setdata does
\* not raise.
C18_FailedWriteIsFalse ==
  (nSets > 0 /\ ~lastSet.wOk /\ getEnv(markers) # "undefined") =>
    (lastSet.ret = "false" /\ store = lastSet.pre)

\* C19: without a host, setdata on a flat key reports success and the
\* value is read back by getdata.
C19_MemoryStore ==
  (getEnv(markers) = "undefined" /\ nSets > 0 /\ ~IsCompound(lastSet.addr)) =>
    /\ lastSet.ret = "true"
    /\ (lastGet # NoGet /\ lastGet.addr = lastSet.addr) => lastGet.res = Str(lastSet.v)


(***************************************************************************)
(* lodash_set on its own: one document, one path, one value, as setdata    *)
(* applies it between JSON.parse and JSON.stringify                        *)
(***************************************************************************)
LodashDocs == {
  Obj(NoProps),
  Obj(P1("a", Str("x"))),
  Obj(P1("a", Obj(P1("b", Str("y"))))),
  Obj(P1("a", Arr(P1("0", Str("x")), 1))),
  Obj(P2("a", JNull, "b", Obj(NoProps))),
  Arr(NoProps, 0),
  Arr(P1("0", Obj(NoProps)), 1) }

LodashPaths == {
  <<"a", ".", "b">>,
  <<"a", ".", "0">>,
  <<"a", "[", "1", "]">>,
  <<"a", ".", "-1">>,
  <<"a", ".", "01">>,
  <<"a", ".", "1e2">>,
  <<"a", ".", "b", ".", "2">>,
  <<"a", "[", "0", "]", ".", "b">>,
  <<"[", "0", "]", ".", "a">>,
  <<"0", ".", "01", ".", "a">>,
  <<"b", ".", "a", ".", "1">>,
  <<"b">> }

LodashInit ==
  /\ markers \in {{}, {"module"}}
  /\ store = [k \in {OtherKey} |-> OtherText]
  /\ nSets = 0 /\ lastSet = NoSet /\ lastGet = NoGet
  /\ WIdle
  /\ ReqIdle
  /\ MainIdle
  /\ RunIdle
  /\ TwiceIdle
  /\ reqT = NoCall /\ native = NoCall /\ reply = NoCall
  /\ \E d \in LodashDocs, e \in LodashPaths, v \in KVValues :
       lsIn = [made |-> TRUE, doc |-> d, path |-> e, v |-> v]
  /\ lsOut = NoCall

\* this.lodash_set(e, o, t), s = this.setval(JSON.stringify(e), i)
SetPath ==
  /\ lsIn # NoCall /\ lsOut = NoCall
  /\ LET d == lodash_set(lsIn.doc, lsIn.path, Str(lsIn.v))
     IN lsOut' = [made |-> TRUE, doc |-> d, text |-> JSONstringify(d)]
  /\ UNCHANGED <<markers, store, kvVars, wVars, reqVars, mainVars, reqT, native, reply, lsIn, runVars, twiceVars>>

\* the stored text is parsed again and the path is read
ReadPath ==
  /\ lsOut # NoCall /\ "got" \notin DOMAIN lsOut
  /\ lsOut' = [made |-> TRUE, doc |-> lsOut.doc, text |-> lsOut.text,
               got |-> lodash_get(JSONparse(lsOut.text), lsIn.path, Str(""))]
  /\ UNCHANGED <<markers, store, kvVars, wVars, reqVars, mainVars, reqT, native, reply, lsIn, runVars, twiceVars>>

LodashNext == SetPath \/ ReadPath

SpecLodash == LodashInit /\ [][LodashNext]_vars

LodashSegs == MatchSegments(lsIn.path, <<>>)

\* a canonical array index: what an array stores as an element
ValidIndex(x) == x \in {"0", "1", "2"}

\* C20: a container that lodash_set creates on the path is an array exactly
\* when the next segment is a non-negative integer index and an object
\* otherwise; a container already on the path is reused.
C20_ArrayIffIndex ==
  lsOut # NoCall =>
    \A i \in 1 .. Len(LodashSegs) - 1 :
      LET pre == SubSeq(LodashSegs, 1, i)
          old == At(lsIn.doc, pre)
          new == At(lsOut.doc, pre)
      IN IF IsObject(old) THEN new.t = old.t
         ELSE new.t = (IF ValidIndex(LodashSegs[i + 1]) THEN "arr" ELSE "obj")

(***************************************************************************)
(* Two writers on one backing store.  Each performs a compound setdata on  *)
(* its own path of the container "c": the read of the container (getval)   *)
(* and the write of the re-serialized document (setval) are two steps, and *)
(* the steps of the two writers interleave freely.                         *)
(***************************************************************************)
Writers == {"w1", "w2"}
WValue(w) == IF w = "w1" THEN "v1" ELSE "v2"

\* fields that do not lie on one another's path
WPaths == {<<"a">>, <<"b">>, <<"e", ".", "a">>, <<"e", ".", "b">>}

\* a container the compound update applies to: absent, empty or malformed
\* text, or a JSON object
WInitTexts == {
  Str(""), Str("{bad"),
  JsonStr(Obj(NoProps)),
  JsonStr(Obj(P1("f", Str("x")))) }

WInit ==
  /\ ReqIdle
  /\ MainIdle
  /\ FnIdle
  /\ RunIdle
  /\ TwiceIdle
  /\ markers \in MarkerSets
  /\ \/ store = [k \in {OtherKey} |-> OtherText]
     \/ \E x \in WInitTexts :
          store = [k \in {OtherKey, <<"c">>} |-> IF k = OtherKey THEN OtherText ELSE x]
  /\ nSets = 0 /\ lastSet = NoSet /\ lastGet = NoGet
  /\ wpc = [w \in Writers |-> "start"]
  /\ wpath \in {pp \in [Writers -> WPaths] : pp["w1"] # pp["w2"]}
  /\ wread = [w \in Writers |-> Undef]
  /\ wret = [w \in Writers |-> "none"]
  /\ wsaw = [w \in Writers |-> {}]

\* r = this.getval(i)
WriterRead(w) ==
  /\ wpc[w] = "start"
  /\ wread' = [wread EXCEPT ![w] = getval(markers, store, <<"c">>)]
  /\ wsaw' = [wsaw EXCEPT ![w] = {o \in Writers : wpc[o] = "done"}]
  /\ wpc' = [wpc EXCEPT ![w] = "read"]
  /\ UNCHANGED <<markers, store, kvVars, reqVars, mainVars, fnVars, runVars, twiceVars, wpath, wret>>

\* lodash_set on the parsed text, then this.setval(JSON.stringify(e), i)
WriterWrite(w, wOk) ==
  /\ wpc[w] = "read"
  /\ LET r == setdataWrite(markers, store, wread[w], WValue(w), Addr("c", wpath[w]), wOk)
     IN /\ store' = r.st
        /\ wret' = [wret EXCEPT ![w] = r.ret]
  /\ wpc' = [wpc EXCEPT ![w] = "done"]
  /\ UNCHANGED <<markers, kvVars, reqVars, mainVars, fnVars, runVars, twiceVars, wpath, wread, wsaw>>

WNext ==
  \/ \E w \in Writers : WriterRead(w)
  \/ \E w \in Writers, wOk \in BOOLEAN : WriterWrite(w, wOk)

SpecWriters == WInit /\ [][WNext]_vars

\* the field of writer w is in the stored document
FieldStored(w) ==
  /\ <<"c">> \in DOMAIN store
  /\ store[<<"c">>].t = "jsontext"
  /\ At(JSONparse(store[<<"c">>]), MatchSegments(wpath[w], <<>>)) = Str(WValue(w))

BothWrote == \A w \in Writers : wpc[w] = "done" /\ wret[w] = "true"

\* the two setdata calls overlapped: neither writer read the container
\* after the other had written it
Overlapped == \A w \in Writers : wsaw[w] = {}

\* C7: when both writers have written successfully, a field is missing from
\* the stored document exactly when their read and write steps overlapped;
\* when one setdata ran wholly after the other, both fields are stored.
C7_LostUpdateIffOverlap ==
  BothWrote => ((\E w \in Writers : ~FieldStored(w)) <=> Overlapped)

\* the lost update: both wrote successfully and only one field is stored
C7_Witness ==
  /\ BothWrote
  /\ \E w \in Writers : FieldStored(w)
  /\ \E w \in Writers : ~FieldStored(w)

(***************************************************************************)
(* Request: the HTTP facade and its timeout race, called by UserInfo.fetch.*)
(* Times are in milliseconds since the call.                               *)
(***************************************************************************)
DefaultTimeout == 10000

\* (mutant) a request without a type is a GET
MethodGet(t) == IF t.type # "none" THEN t.type ELSE "get"

\* p = e ? e.toLowerCase() : "body" in t ? "post" : "get"
Method(t) ==
  IF t.type # "none" THEN t.type ELSE IF t.hasBody THEN "post" ELSE "get"

\* i = t.timeout ? $.isSurge() ? t.timeout / 1e3 : t.timeout : 1e4
\* (an omitted timeout is 0 here; the model's timeouts are multiples of 1000)
EffectiveTimeout(m, t) ==
  IF t.timeout # 0
  THEN (IF isSurge(m) THEN t.timeout \div 1000 ELSE t.timeout)
  ELSE DefaultTimeout

\* (mutant) redirects are switched off unless the caller opts in
RedirectFlagsOptIn(m, fr) ==
  [autoRedirect |-> IF fr # "true" /\ (isSurge(m) \/ isLoon(m)) THEN "false" ELSE "absent",
   redirection |-> IF fr # "true" /\ isQuanX(m) THEN "false" ELSE "absent"]

\* Env.get / Env.post: void 0 === t.followRedirect || t.followRedirect ||
\*   ((isSurge || isLoon) && (t["auto-redirect"] = !1),
\*    isQuanX && (t.opts ? t.opts.redirection = !1 : t.opts = {redirection: !1}))
RedirectFlags(m, fr) ==
  [autoRedirect |-> IF fr = "false" /\ (isSurge(m) \/ isLoon(m)) THEN "false" ELSE "absent",
   redirection |-> IF fr = "false" /\ isQuanX(m) THEN "false" ELSE "absent"]

\* the options object l after Env.get / Env.post has prepared it for the host
HttpOptions(m, t) ==
  [method |-> Method(t),
   timeout |-> EffectiveTimeout(m, t),
   autoRedirect |-> RedirectFlags(m, t.followRedirect).autoRedirect,
   redirection |-> RedirectFlags(m, t.followRedirect).redirection]

\* (mutant) no timer enters the race
ArmNoTimer(i) == [state |-> "none", delay |-> i]

\* new Promise((t, o) => setTimeout(() => o("当前请求已超时"), i))
ArmTimer(i) == [state |-> "armed", delay |-> i]

\* Env.get / Env.post hand the host's answer to Http.send's callback, which
\* does t ? reject(t) : resolve(s).  $httpClient and $task.fetch report only
\* a failed exchange as an error; got (Node.js) also rejects on a non-2xx
\* status.
SendRejects(m, what) ==
  what = "neterror" \/ (what = "non2xx" /\ isNode(m))

\* (mutant) a transport error rejects the promise m
MSettleNoCatch(rejected, what) ==
  IF rejected
  THEN [state |-> "rejected", value |-> "error", by |-> "transport"]
  ELSE [state |-> "resolved", value |-> what, by |-> "transport"]

\* m = $.http[p](l).then(shape).catch(t => $.log(...)): a reported error is
\* logged and m resolves to undefined
MSettle(rejected, what) ==
  IF rejected
  THEN [state |-> "resolved", value |-> "undefined", by |-> "transport"]
  ELSE [state |-> "resolved", value |-> what, by |-> "transport"]

\* (mutant) the last settlement wins
RaceLast(cur, new) == new

\* Promise.race: the first settlement is the result
Race(cur, new) == IF cur.state = "pending" THEN new ELSE cur

Timeouts == {0, 2000, 8000}
Latencies == {1, 5, 2000, 5000, 20000}
\* what the host does with the exchange: it fails, or answers with a non-2xx
\* status, or with a JSON body (ordinary, or carrying code "500"), or with a
\* body that is not JSON
Reports == {"neterror", "non2xx", "good", "code500", "raw"}

Requests ==
  [url : {"", "u"}, type : {"none", "get", "post"}, hasBody : BOOLEAN,
   timeout : Timeouts, followRedirect : {"absent", "true", "false"}]

ReqInit ==
  /\ markers \in MarkerSets
  /\ store = [k \in {OtherKey} |-> OtherText]
  /\ nSets = 0 /\ lastSet = NoSet /\ lastGet = NoGet
  /\ WIdle
  /\ ReqIdle
  /\ MainIdle
  /\ FnIdle
  /\ RunIdle
  /\ TwiceIdle

\* UserInfo.fetch calls Request(t); never, ms and reports are what the host's
\* transport will do with the call.  Without a host ($httpClient undefined)
\* the call throws inside the promise executor: an error reported at once.
RequestCall(t, never, ms, reports) ==
  /\ fetchpc = "idle"
  /\ getEnv(markers) = "undefined" => ~never /\ ms = 0 /\ reports = "neterror"
  /\ getEnv(markers) # "undefined" => ms > 0
  /\ req' = t
  /\ fetchpc' = "awaiting"
  /\ IF t.url = ""
     THEN \* throw new Error(...) is caught, and the catch block reads p,
          \* which is out of scope there: the async function rejects
          /\ outcome' = [state |-> "rejected", value |-> "ReferenceError", by |-> "sync"]
          /\ rejections' = rejections + 1
          /\ UNCHANGED <<sent, timer, transport>>
     ELSE /\ sent' = HttpOptions(markers, t)
          /\ timer' = ArmTimer(EffectiveTimeout(markers, t))
          /\ transport' = [state |-> "pending", never |-> never, ms |-> ms,
                           reports |-> reports]
          /\ outcome' = [state |-> "pending", value |-> "none", by |-> "none"]
          /\ UNCHANGED rejections
  /\ UNCHANGED <<markers, store, kvVars, wVars, mainVars, fnVars, runVars, twiceVars, first, errLogs, fetchRet,
                 ckStatus, fetchLogs>>

\* the host's callback runs
TransportSettle ==
  /\ transport.state = "pending"
  /\ ~transport.never
  /\ timer.state = "armed" => transport.ms <= timer.delay
  /\ transport' = [transport EXCEPT !.state = "settled"]
  /\ outcome' = Race(outcome, MSettle(SendRejects(markers, transport.reports),
                                      transport.reports))
  /\ errLogs' = IF SendRejects(markers, transport.reports) THEN errLogs + 1 ELSE errLogs
  /\ first' = IF first = "none" THEN "transport" ELSE first
  /\ rejections' = IF outcome'.state = "rejected" /\ outcome.state # "rejected"
                   THEN rejections + 1 ELSE rejections
  /\ UNCHANGED <<markers, store, kvVars, wVars, mainVars, fnVars, runVars, twiceVars, req, sent, timer, fetchpc,
                 fetchRet,
                 ckStatus, fetchLogs>>

\* the setTimeout callback runs
TimerFire ==
  /\ timer.state = "armed"
  /\ (transport.state = "pending" /\ ~transport.never) => timer.delay <= transport.ms
  /\ timer' = [timer EXCEPT !.state = "fired"]
  /\ outcome' = Race(outcome, [state |-> "rejected", value |-> "timeout", by |-> "timer"])
  /\ first' = IF first = "none" THEN "timer" ELSE first
  /\ rejections' = IF outcome'.state = "rejected" /\ outcome.state # "rejected"
                   THEN rejections + 1 ELSE rejections
  /\ UNCHANGED <<markers, store, kvVars, wVars, mainVars, fnVars, runVars, twiceVars, req, sent, transport,
                 errLogs, fetchpc,
                 fetchRet, ckStatus, fetchLogs>>

\* (mutant) the response's code is not looked at
FetchResumeAnyCode ==
  /\ fetchpc = "awaiting"
  /\ outcome.state \in {"resolved", "rejected"}
  /\ fetchpc' = "returned"
  /\ IF outcome.state = "rejected"
     THEN ckStatus' = FALSE /\ fetchRet' = "undefined" /\ fetchLogs' = fetchLogs + 1
     ELSE fetchRet' = outcome.value /\ UNCHANGED <<ckStatus, fetchLogs>>
  /\ UNCHANGED <<markers, store, kvVars, wVars, mainVars, fnVars, runVars, twiceVars, req, sent, timer, transport,
                 outcome, first, errLogs, rejections>>

\* UserInfo.fetch resumes after await Request(...): a rejection, or a
\* response whose code is "500", lands in its catch block, which sets
\* ckStatus, logs one line and lets fetch return undefined
FetchResume ==
  /\ fetchpc = "awaiting"
  /\ outcome.state \in {"resolved", "rejected"}
  /\ fetchpc' = "returned"
  /\ IF outcome.state = "rejected" \/ outcome.value = "code500"
     THEN ckStatus' = FALSE /\ fetchRet' = "undefined" /\ fetchLogs' = fetchLogs + 1
     ELSE fetchRet' = outcome.value /\ UNCHANGED <<ckStatus, fetchLogs>>
  /\ UNCHANGED <<markers, store, kvVars, wVars, mainVars, fnVars, runVars, twiceVars, req, sent, timer, transport,
                 outcome, first, errLogs, rejections>>

ReqNext ==
  \/ /\ fetchpc = "idle"
     /\ \E t \in Requests, never \in BOOLEAN, ms \in Latencies \cup {0}, r \in Reports :
          RequestCall(t, never, ms, r)
  \/ TransportSettle
  \/ TimerFire
  \/ FetchResume

SpecReq == ReqInit /\ [][ReqNext]_vars

\* the runtime runs every due callback and every ready continuation
SpecReqFair ==
  SpecReq /\ WF_vars(TransportSettle) /\ WF_vars(TimerFire) /\ WF_vars(FetchResume)

(***************************************************************************)
(* Properties of Request                                                   *)
(***************************************************************************)
\* the duration the caller asked for
CallerTimeout(t) == IF t.timeout # 0 THEN t.timeout ELSE DefaultTimeout

Sent == sent # NoSent
TimedOut == outcome = [state |-> "rejected", value |-> "timeout", by |-> "timer"]
SlowerThanTimeout ==
  Sent /\ (transport.never \/ CallerTimeout(req) < transport.ms)

\* C3: when the transport answers later than the caller's timeout, or never,
\* the request ends with the timeout failure, and so does the fetch that
\* awaits it, in every host environment.
C3_TimeoutEnds == SlowerThanTimeout ~> (TimedOut /\ fetchpc = "returned")

C3_Witness ==
  /\ SlowerThanTimeout /\ transport.never /\ TimedOut /\ fetchpc = "returned"
  /\ getEnv(markers) = "Surge"

TransportFailed ==
  transport.state = "settled" /\ SendRejects(markers, transport.reports)

C11_MethodInferred ==
  (Sent /\ req.type = "none") =>
    sent.method = IF req.hasBody THEN "post" ELSE "get"

C11_Witness ==
  /\ Sent /\ req.type = "none" /\ req.hasBody /\ sent.method = "post"
  /\ transport.state = "settled"

RedirectsOff ==
  /\ (isSurge(markers) \/ isLoon(markers)) => sent.autoRedirect = "false"
  /\ isQuanX(markers) => sent.redirection = "false"

\* C8 (as stated): unless the caller opts into redirects, the request is
\* sent with redirect-following disabled.
C8_OffUnlessOptedIn == (Sent /\ req.followRedirect # "true") => RedirectsOff

\* C8 (amended): redirect-following is disabled exactly when the caller
\* passes a followRedirect that is present and falsy; a request that does
\* not mention followRedirect carries no redirect flag.
C8_OffOnlyWhenRefused ==
  Sent =>
    /\ sent.autoRedirect = "false" <=>
         (req.followRedirect = "false" /\ (isSurge(markers) \/ isLoon(markers)))
    /\ sent.redirection = "false" <=>
         (req.followRedirect = "false" /\ isQuanX(markers))

C8_Witness ==
  /\ Sent /\ req.followRedirect = "false" /\ isQuanX(markers)
  /\ sent.redirection = "false"

\* C9: the timer fires after the caller's timeout in milliseconds, and the
\* transport is given the same duration in its own unit (seconds on Surge).
C9_SameDuration ==
  Sent =>
    /\ timer.delay = CallerTimeout(req)
    /\ sent.timeout = IF isSurge(markers) THEN CallerTimeout(req) \div 1000
                      ELSE CallerTimeout(req)

\* what the first entrant to settle makes of the request
WinnerOutcome ==
  IF first = "timer"
  THEN [state |-> "rejected", value |-> "timeout", by |-> "timer"]
  ELSE [state |-> "resolved",
        value |-> IF SendRejects(markers, transport.reports) THEN "undefined"
                  ELSE transport.reports,
        by |-> "transport"]

WinnerFails == WinnerOutcome.state = "rejected" \/ WinnerOutcome.value = "code500"

\* C10: the first of transport and timer to settle decides the outcome;
\* what the fetch returned and the account's ckStatus follow the winner
\* also after the loser has settled, and at most one rejection surfaces.
C10_FirstWins ==
  /\ first # "none" => outcome = WinnerOutcome
  /\ (first # "none" /\ fetchpc = "returned") =>
       /\ ckStatus = ~WinnerFails
       /\ fetchRet = IF WinnerFails THEN "undefined" ELSE WinnerOutcome.value
  /\ rejections <= 1
  /\ rejections = 1 => outcome.state = "rejected"

C10_Witness ==
  /\ first = "transport" /\ transport.reports = "good"
  /\ timer.state = "fired" /\ fetchpc = "returned"
  /\ ckStatus /\ fetchRet = "good"

\* the transport answered and the parsed answer carries code "500"
AppFailure ==
  fetchpc = "returned" /\ outcome.state = "resolved" /\ outcome.value = "code500"

\* C30: a response with code "500" is raised inside UserInfo.fetch and
\* caught there: the account's ckStatus is false, one line is logged, and
\* fetch returns undefined to the step that called it; no rejection leaves it.
C30_AppFailureStaysInside ==
  AppFailure =>
    /\ ckStatus = FALSE
    /\ fetchRet = "undefined"
    /\ fetchLogs = 1
    /\ errLogs = 0
    /\ rejections = 0

C30_Witness == AppFailure /\ ~ckStatus /\ fetchLogs = 1

\* C38: Request called without a url hands nothing to the transport and
\* resolves to undefined after logging; it does not reject.
C38_NoUrlResolves ==
  (req.url = "" /\ outcome.state # "none") =>
    /\ transport = NoTransport
    /\ sent = NoSent
    /\ outcome.state = "resolved" /\ outcome.value = "undefined"
    /\ rejections = 0

(***************************************************************************)
(* getEnv on its own: any combination of host globals may be defined       *)
(***************************************************************************)
EnvInit ==
  /\ markers \in SUBSET Markers
  /\ store = [k \in {OtherKey} |-> OtherText]
  /\ nSets = 0 /\ lastSet = NoSet /\ lastGet = NoGet
  /\ WIdle
  /\ ReqIdle
  /\ MainIdle
  /\ FnIdle
  /\ RunIdle
  /\ TwiceIdle

\* a call of $.getEnv()
Probe ==
  /\ probed = "none"
  /\ probed' = getEnv(markers)
  /\ UNCHANGED <<markers, store, kvVars, wVars, reqVars, mainVars, fnVars, runIn, runpc,
                 inflight, calls, logs, mute, twiceVars>>

\* a call of $.isNode()
ProbeNode ==
  /\ probed \notin {"none", "true", "false"}
  /\ probed' = IF isNode(markers) THEN "true" ELSE "false"
  /\ UNCHANGED <<markers, store, kvVars, wVars, reqVars, mainVars, fnVars, runIn, runpc,
                 inflight, calls, logs, mute, twiceVars>>

EnvNext == Probe \/ ProbeNode

SpecEnv == EnvInit /\ [][EnvNext]_vars

\* the value getEnv returns for the host that defines marker x
EnvOf(x) ==
  CASE x = "surge" -> "Surge"
    [] x = "stash" -> "Stash"
    [] x = "task" -> "Quantumult X"
    [] x = "loon" -> "Loon"
    [] x = "rocket" -> "Shadowrocket"
    [] OTHER -> "Node.js"

ProxyMarkers == Markers \ {"module"}

\* C28: getEnv returns the host of a marker that is present, a proxy
\* variant whenever a proxy marker is present and Node.js only when the
\* module system is the one marker there; with no marker it returns the
\* Unknown value.
C28_ProxyFirst ==
  probed \in {EnvOf(x) : x \in Markers} \cup {"undefined"} =>
    /\ markers = {} => probed = "undefined"
    /\ markers # {} => \E x \in markers : probed = EnvOf(x)
    /\ (markers \cap ProxyMarkers) # {} => probed # "Node.js"

(***************************************************************************)
(* Notifications and completion: Env.msg and Env.done.  A text is a tag    *)
(* ("" is the empty string); the counts of $.title and the summary lines   *)
(* ride along in their own fields.                                         *)
(***************************************************************************)
\* the values of a payload field: a text is a sequence of characters (a
\* name, a number or a base64 run is one element)
Undefined == <<"(undefined)">>
NullText == <<"(null)">>
Absent == <<"(absent)">>

NoExtras == [media |-> Undefined, mediaMime |-> Undefined]
NoPayload == [kind |-> "none", url |-> Absent, base64 |-> Absent, mime |-> Absent]

HostCall(c, e, s, i, o, counts, lines, payload) ==
  [call |-> c, title |-> e, subtitle |-> s, body |-> i, extras |-> o, counts |-> counts,
   lines |-> lines, payload |-> payload]

Call(c) == HostCall(c, "", "", "", NoExtras, NoTitle, <<>>, NoPayload)

startsWith(i, x) == Len(i) > 0 /\ i[1] = x

\* i.split(sep)[0] and i.split(sep)[1]
RECURSIVE Before(_, _)
Before(i, sep) ==
  IF i = <<>> \/ i[1] = sep THEN <<>> ELSE <<i[1]>> \o Before(Tail(i), sep)

RECURSIVE After(_, _)
After(i, sep) ==
  IF i = <<>> THEN Undefined
  ELSE IF i[1] = sep THEN Before(Tail(i), sep) ELSE After(Tail(i), sep)

\* t.replace("data:", ""): the first occurrence is removed
RECURSIVE RemoveFirst(_, _)
RemoveFirst(t, x) ==
  IF t = <<>> THEN <<>>
  ELSE IF t[1] = x THEN Tail(t) ELSE <<t[1]>> \o RemoveFirst(Tail(t), x)

\* the MIME type inferred from the first bytes of a base64 text, or null
MagicMime(i) ==
  CASE startsWith(i, "JVBERi0") -> <<"application/pdf">>
    [] startsWith(i, "R0lGODdh") -> <<"image/gif">>
    [] startsWith(i, "R0lGODlh") -> <<"image/gif">>
    [] startsWith(i, "iVBORw0KGgo") -> <<"image/png">>
    [] startsWith(i, "/9j/") -> <<"image/jpg">>
    [] OTHER -> NullText

\* o ?? s
Coalesce(o, x) == IF o \in {Undefined, NullText} THEN x ELSE o

\* (mutant) a data: URI is passed on whole, as a raw base64 text is
MediaFieldsWhole(i, o) ==
  IF startsWith(i, "http")
  THEN [url |-> i, base64 |-> Undefined, mime |-> Coalesce(o, Undefined)]
  ELSE [url |-> Undefined, base64 |-> i, mime |-> Coalesce(o, MagicMime(i))]

\* if (i) { if (i.startsWith("http")) t = i; else if (i.startsWith("data:"))
\* { const [t] = i.split(";"), [, o] = i.split(","); e = o, s =
\* t.replace("data:", "") } else { e = i, s = (magic)(i) } Object.assign(r,
\* { "media-url": t, "media-base64": e, "media-base64-mime": o ?? s }) }
MediaFields(i, o) ==
  IF startsWith(i, "http")
  THEN [url |-> i, base64 |-> Undefined, mime |-> Coalesce(o, Undefined)]
  ELSE IF startsWith(i, "data:")
  THEN [url |-> Undefined, base64 |-> After(i, ","),
        mime |-> Coalesce(o, RemoveFirst(Before(i, ";"), "data:"))]
  ELSE [url |-> Undefined, base64 |-> i, mime |-> Coalesce(o, MagicMime(i))]

\* const r = t => ...: the payload built from the extras { $media,
\* $mediaMime } for the host (no open-url, clipboard text or sound is set)
Payload(m, o) ==
  LET env == getEnv(m)
      i == o.media
      f == MediaFields(i, o.mediaMime)
  IN CASE env = "Node.js" -> [NoPayload EXCEPT !.kind = "undefined"]
       [] env \in {"Loon", "Quantumult X"} ->
            [kind |-> "object", url |-> IF startsWith(i, "http") THEN i ELSE Absent,
             base64 |-> Absent, mime |-> Absent]
       [] OTHER ->
            IF i \in {Undefined, <<>>} THEN [NoPayload EXCEPT !.kind = "object"]
            ELSE [kind |-> "object", url |-> f.url, base64 |-> f.base64, mime |-> f.mime]

\* (mutant) isMute silences the transcript as well
msgMuteAll(m, mu, e, s, i, o, counts, lines) ==
  LET env == getEnv(m)
      raised == ~mu.isMute /\ env = "undefined"
      posted == IF mu.isMute \/ env = "Node.js" THEN <<>>
                ELSE IF env = "undefined" THEN <<Call("ReferenceError")>>
                ELSE IF env = "Quantumult X"
                THEN <<HostCall("$notify", e, s, i, o, counts, lines, Payload(m, o))>>
                ELSE <<HostCall("$notification.post", e, s, i, o, counts, lines, Payload(m, o))>>
      t == <<"", "header", e>> \o (IF s # "" THEN <<s>> ELSE <<>>)
                               \o (IF i # "" THEN <<i>> ELSE <<>>)
  IN [calls |-> <<HostCall("msg", e, s, i, o, counts, lines, NoPayload)>> \o posted,
      logs |-> IF raised \/ mu.isMuteLog \/ mu.isMute THEN <<>> ELSE t,
      raised |-> raised]

\* msg(e, s, i, o): if (!this.isMute) switch (this.getEnv()) { ... default:
\* $notification.post(e, s, i, r(o)); case "Quantumult X": $notify(...);
\* case "Node.js": break }, then if (!this.isMuteLog) the lines are logged.
\* Without a host the default case names $notification, which is not defined.
msg(m, mu, e, s, i, o, counts, lines) ==
  LET env == getEnv(m)
      raised == ~mu.isMute /\ env = "undefined"
      posted == IF mu.isMute \/ env = "Node.js" THEN <<>>
                ELSE IF env = "undefined" THEN <<Call("ReferenceError")>>
                ELSE IF env = "Quantumult X"
                THEN <<HostCall("$notify", e, s, i, o, counts, lines, Payload(m, o))>>
                ELSE <<HostCall("$notification.post", e, s, i, o, counts, lines, Payload(m, o))>>
      t == <<"", "header", e>> \o (IF s # "" THEN <<s>> ELSE <<>>)
                               \o (IF i # "" THEN <<i>> ELSE <<>>)
  IN [calls |-> <<HostCall("msg", e, s, i, o, counts, lines, NoPayload)>> \o posted,
      logs |-> IF raised \/ mu.isMuteLog THEN <<>> ELSE t,
      raised |-> raised]

\* (mutant) completion is signalled with $done on every host
doneAlwaysSignal(m) ==
  [calls |-> <<Call("done"), Call("$done")>>, logs |-> <<"", "end">>, raised |-> FALSE]

\* done(t): the closing line is logged, then switch (this.getEnv()) {
\* ... default: $done(t); case "Node.js": process.exit(1) }
done(m) ==
  LET env == getEnv(m)
  IN [calls |-> <<Call("done"),
                  Call(IF env = "Node.js" THEN "process.exit"
                       ELSE IF env = "undefined" THEN "ReferenceError" ELSE "$done")>>,
      logs |-> <<"", "end">>,
      raised |-> env = "undefined"]

\* logErr(t, e): one this.log(...) in every environment
logErr == <<"", "error!">>

MaxMsgs == 1

Subtitles == {"", "sub"}
MsgBodies == {"", "body"}
Mutes == [isMute : BOOLEAN, isMuteLog : BOOLEAN]

DataUri(mime, b64) == <<"data:", mime, ";", "base64", ",", b64>>
Medias == {Undefined, <<"http", "://h/a.png">>, DataUri("image/png", "QUJD"),
           DataUri("text/plain", "aGk="), <<"iVBORw0KGgo", "AAA">>, <<"QUJD">>}
Extras == [media : Medias, mediaMime : {Undefined, <<"image/gif">>}]

MsgsMade == Cardinality({k \in DOMAIN calls : calls[k].call = "msg"})

MsgInit ==
  /\ markers \in MarkerSets
  /\ store = [k \in {OtherKey} |-> OtherText]
  /\ nSets = 0 /\ lastSet = NoSet /\ lastGet = NoGet
  /\ WIdle
  /\ ReqIdle
  /\ MainIdle
  /\ FnIdle
  /\ runIn = NoRunIn
  /\ runpc = "msgs"
  /\ inflight = <<>>
  /\ calls = <<>>
  /\ logs = <<>>
  /\ mute \in Mutes
  /\ probed = "none"
  /\ TwiceIdle

\* $.msg($.name, s, i, o)
CallMsg(s, i, o) ==
  /\ runpc = "msgs"
  /\ MsgsMade < MaxMsgs
  /\ LET r == msg(markers, mute, "name", s, i, o, NoTitle, <<>>)
     IN calls' = calls \o r.calls /\ logs' = logs \o r.logs
  /\ UNCHANGED <<markers, store, kvVars, wVars, reqVars, mainVars, fnVars, runIn, runpc,
                 inflight, mute, probed, twiceVars>>

\* $.done({})
CallDone ==
  /\ runpc = "msgs"
  /\ LET r == done(markers)
     IN calls' = calls \o r.calls /\ logs' = logs \o r.logs
  /\ runpc' = "ended"
  /\ UNCHANGED <<markers, store, kvVars, wVars, reqVars, mainVars, fnVars, runIn,
                 inflight, mute, probed, twiceVars>>

MsgNext ==
  \/ \E s \in Subtitles, i \in MsgBodies, o \in Extras : CallMsg(s, i, o)
  \/ CallDone

SpecMsg == MsgInit /\ [][MsgNext]_vars

NativeNotify == {"$notification.post", "$notify", "sendNotify"}

\* this step is a call of msg
MsgStep == Len(calls') > Len(calls) /\ calls'[Len(calls) + 1].call = "msg"

\* the lines of the message that was passed to msg in this step
Message ==
  LET c == calls'[Len(calls) + 1]
  IN <<"", "header", c.title>> \o (IF c.subtitle = "" THEN <<>> ELSE <<c.subtitle>>)
                               \o (IF c.body = "" THEN <<>> ELSE <<c.body>>)

\* C27: with isMute set a call of msg makes no native notification call;
\* the title, the subtitle if not empty and the body if not empty are still
\* added to the transcript, unless isMuteLog is set, and then the transcript
\* stays as it was.
C27_MutedStillLogged ==
  [][(MsgStep /\ mute.isMute) =>
       /\ Len(calls') = Len(calls) + 1
       /\ logs' = IF mute.isMuteLog THEN logs ELSE logs \o Message]_vars

C27_Witness ==
  /\ mute.isMute /\ ~mute.isMuteLog
  /\ MsgsMade = 1 /\ Len(calls) = 1 /\ calls[1].subtitle = "sub" /\ calls[1].body = ""
  /\ logs = <<"", "header", "name", "sub">>

\* C29: without a host msg and done are safe no-ops: no native call is
\* made, nothing is raised, and msg leaves its lines in the transcript.
C29_UnknownIsNoOp ==
  getEnv(markers) = "undefined" =>
    \A k \in DOMAIN calls : calls[k].call \in {"msg", "done"}

\* the hosts whose notification call takes inline media
InlineMediaEnvs == {"Surge", "Stash", "Shadowrocket"}

\* the call of msg at k was given a data: URI as $media
DataMediaAt(k) ==
  /\ calls[k].call = "msg"
  /\ \E mime \in {"image/png", "text/plain"}, b64 \in {"QUJD", "aGk="} :
       calls[k].extras.media = DataUri(mime, b64)

Dispatched(k) == k < Len(calls) /\ calls[k + 1].call \in NativeNotify

\* C31: a data: URI given as $media reaches every host that takes inline
\* media as media-base64 = the base64 part and media-base64-mime = the MIME
\* part, or $mediaMime when that is given, with no media-url; Loon and
\* Quantumult X get a payload without media, Node.js gets no call, and
\* nothing is raised.
C31_DataUriSplit ==
  \A k \in DOMAIN calls :
    (DataMediaAt(k) /\ ~mute.isMute) =>
      LET i == calls[k].extras.media
          given == calls[k].extras.mediaMime
      IN /\ getEnv(markers) \in InlineMediaEnvs =>
              /\ Dispatched(k)
              /\ calls[k + 1].payload.base64 = <<i[6]>>
              /\ calls[k + 1].payload.mime = IF given = Undefined THEN <<i[2]>> ELSE given
              /\ calls[k + 1].payload.url \in {Absent, Undefined}
         /\ getEnv(markers) \in {"Loon", "Quantumult X"} =>
              /\ Dispatched(k)
              /\ calls[k + 1].payload = [NoPayload EXCEPT !.kind = "object"]
         /\ getEnv(markers) = "Node.js" =>
              (k = Len(calls) \/ calls[k + 1].call \in {"msg", "done"})

C31_Witness ==
  /\ getEnv(markers) = "Stash" /\ Len(calls) = 2 /\ DataMediaAt(1)
  /\ calls[1].extras.mediaMime = <<"image/gif">>
  /\ calls[2].payload.base64 = <<"QUJD">> /\ calls[2].payload.mime = <<"image/gif">>

(***************************************************************************)
(* main: the loop over the accounts, in both scripts.  Every action is one *)
(* awaited call of main together with the synchronous code that follows    *)
(* it up to the next await.                                                *)
(***************************************************************************)
MaxAccounts == 2

\* how the exchange behind one fetch ends: a well-formed answer, a transport
\* failure (Request resolves to undefined), a timeout (Request rejects), an
\* answer with code "500", an answer without the fields the step reads
FetchResults == {"good", "failed", "timeout", "code500", "malformed"}

Accounts == [named : BOOLEAN]
UserLists == UNION {[1..n -> Accounts] : n \in 1..MaxAccounts}

\* sfsy: the task names of a task list ("topic" is the one main acts on;
\* "paper" is skipped while is_paper is "false", "publish" always)
TaskLists == {<<>>, <<"publish">>, <<"topic">>, <<"paper", "topic">>}
RECURSIVE Awaited(_)
Awaited(list) ==
  IF list = <<>> THEN <<>>
  ELSE IF Head(list) = "topic" THEN <<"topic">> \o Awaited(Tail(list))
  ELSE Awaited(Tail(list))

\* UserInfo.fetch: what it returns and whether its catch block ran.  Only
\* the fetch of adapter.js raises on code "500".
fetch(sc, what) ==
  CASE what = "good" -> [res |-> "good", flips |-> FALSE]
    [] what = "failed" -> [res |-> "undefined", flips |-> FALSE]
    [] what = "timeout" -> [res |-> "undefined", flips |-> TRUE]
    [] what = "code500" -> IF sc = "fyhs" THEN [res |-> "undefined", flips |-> TRUE]
                           ELSE [res |-> "malformed", flips |-> FALSE]
    [] OTHER -> [res |-> "malformed", flips |-> FALSE]

FirstStep(sc) == IF sc = "fyhs" THEN "getBeanF" ELSE "getCode"

\* (without a host getval is null and checkEnv finds no account)
MainStart ==
  /\ markers \in MarkerSets /\ getEnv(markers) # "undefined"
  /\ store = [k \in {OtherKey} |-> OtherText]
  /\ nSets = 0 /\ lastSet = NoSet /\ lastGet = NoGet
  /\ WIdle
  /\ ReqIdle
  /\ FnIdle
  /\ RunIdle
  /\ script \in {"fyhs", "sfsy"}
  /\ Loads(script, markers)
  /\ userList \in UserLists
  /\ pos = 1
  /\ pc = FirstStep(script)
  /\ stepNo = 1
  /\ tasks = <<>>
  /\ ck = [i \in 1..Len(userList) |-> TRUE]
  /\ notifyMsg = <<>>
  /\ succCount = 0
  /\ title = NoTitle
  /\ notified = "none"
  /\ mainState = "running"
  /\ authFailed = {}
  /\ stepFailed = {}

MainInit == MainStart /\ TwiceIdle

Running(sc, p) ==
  mainState = "running" /\ script = sc /\ pos <= Len(userList) /\ pc = p

MainFrame ==
  UNCHANGED <<markers, store, kvVars, wVars, reqVars, fnVars, runVars, script, userList, title, notified>>

\* (mutant) ckStatus tells how the last call went
FlipBack(b) == ck' = [ck EXCEPT ![pos] = ~b]

\* this.ckStatus = false in a catch block
Flip(b) == ck' = [ck EXCEPT ![pos] = @ /\ ~b]

Goto(p, n) ==
  pc' = p /\ stepNo' = n /\ UNCHANGED <<pos, notifyMsg, succCount, mainState>>

\* a statement of main throws; catch (e) { throw e } hands it on
Throw ==
  mainState' = "threw" /\ UNCHANGED <<pos, pc, stepNo, notifyMsg, succCount>>

\* (mutant) the line is put in front of the lines recorded so far
NextUserFront(line, counted) ==
  /\ notifyMsg' = <<line>> \o notifyMsg
  /\ succCount' = IF counted THEN succCount + 1 ELSE succCount
  /\ pos' = pos + 1
  /\ pc' = FirstStep(script)
  /\ stepNo' = 1
  /\ UNCHANGED mainState

\* the line is pushed and the for-of loop moves on
NextUser(line, counted) ==
  /\ notifyMsg' = Append(notifyMsg, line)
  /\ succCount' = IF counted THEN succCount + 1 ELSE succCount
  /\ pos' = pos + 1
  /\ pc' = FirstStep(script)
  /\ stepNo' = 1
  /\ UNCHANGED mainState

\* (mutant) the account is counted only if its ckStatus is still true
SucceededIfStill ==
  NextUser([kind |-> "ok", who |-> pos,
            label |-> IF script = "fyhs" /\ ~userList[pos].named THEN "undefined"
                      ELSE "name"], ck[pos])

\* notifyMsg.push(...); succCount++
Succeeded ==
  NextUser([kind |-> "ok", who |-> pos,
            label |-> IF script = "fyhs" /\ ~userList[pos].named THEN "undefined"
                      ELSE "name"], TRUE)

\* a step of the workflow after the probe
Working(what, b) ==
  /\ Flip(b)
  /\ stepFailed' = IF what = "good" THEN stepFailed ELSE stepFailed \cup {pos}
  /\ UNCHANGED authFailed

\* ---- adapter.js (fyhs) ----

\* let pointF = await user.getBean(): bean(1), bean(2), and the login is
\* taken as expired unless both counts came back; then if (user.ckStatus)
\* ... else DoubleLog(`${user.userName ?? `账号${index}`}...`), where no
\* index is in scope
getBeanF(w1, w2) ==
  /\ Running("fyhs", "getBeanF")
  /\ LET ok == fetch(script, w1).res = "good" /\ fetch(script, w2).res = "good" IN
       /\ Flip(~ok)
       /\ authFailed' = IF ok THEN authFailed ELSE authFailed \cup {pos}
       /\ IF ok THEN Goto("signin", 1)
          ELSE IF userList[pos].named
               THEN NextUser([kind |-> "fail", who |-> pos, label |-> "name"], FALSE)
               ELSE Throw
  /\ UNCHANGED <<stepFailed, tasks>>
  /\ MainFrame

\* await user.signin(), in both scripts
signin(what) ==
  /\ mainState = "running" /\ pos <= Len(userList) /\ pc = "signin"
  /\ Working(what, fetch(script, what).flips)
  /\ Goto(IF script = "fyhs" THEN "doTask" ELSE "getTaskList", 1)
  /\ UNCHANGED tasks
  /\ MainFrame

\* alipayTask: await this.doTask(task) for each of the three tasks
doTask(what) ==
  /\ Running("fyhs", "doTask")
  /\ Working(what, fetch(script, what).flips \/ fetch(script, what).res = "malformed")
  /\ IF stepNo < 3 THEN Goto("doTask", stepNo + 1) ELSE Goto("step", 1)
  /\ UNCHANGED tasks
  /\ MainFrame

\* for (i = 1; i <= 3; i++) { let res = await user.step(); if (res) break }
step(what, limit) ==
  /\ Running("fyhs", "step")
  /\ Working(what, fetch(script, what).flips \/ fetch(script, what).res = "malformed")
  /\ IF (what = "good" /\ limit) \/ stepNo = 3
     THEN Goto("poolSign", 1) ELSE Goto("step", stepNo + 1)
  /\ UNCHANGED tasks
  /\ MainFrame

poolSign(what) ==
  /\ Running("fyhs", "poolSign")
  /\ Working(what, fetch(script, what).flips)
  /\ Goto("bet", 1)
  /\ UNCHANGED tasks
  /\ MainFrame

bet(what) ==
  /\ Running("fyhs", "bet")
  /\ Working(what, fetch(script, what).flips)
  /\ Goto("getBeanE", 1)
  /\ UNCHANGED tasks
  /\ MainFrame

\* let pointE = await user.getBean(); notifyMsg.push(...); succCount++
getBeanE(w1, w2) ==
  /\ Running("fyhs", "getBeanE")
  /\ LET ok == fetch(script, w1).res = "good" /\ fetch(script, w2).res = "good" IN
       /\ Flip(~ok)
       /\ stepFailed' = IF ok THEN stepFailed ELSE stepFailed \cup {pos}
  /\ Succeeded
  /\ UNCHANGED <<authFailed, tasks>>
  /\ MainFrame

\* ---- the second script (sfsy) ----

\* let code = await user.getCode(): throws inside unless res.obj.code
getCode(what) ==
  /\ Running("sfsy", "getCode")
  /\ Flip(fetch(script, what).res # "good")
  /\ Goto("Login", 1)
  /\ UNCHANGED <<authFailed, stepFailed, tasks>>
  /\ MainFrame

\* await user.Login(code), called whatever getCode gave; then
\* if (user.ckStatus) ... else DoubleLog(`用户: ${user?.userName} ...`)
Login(what) ==
  /\ Running("sfsy", "Login")
  /\ Flip(fetch(script, what).res # "good")
  /\ authFailed' = IF ck'[pos] THEN authFailed ELSE authFailed \cup {pos}
  /\ IF ck'[pos] THEN Goto("getUserInfoF", 1)
     ELSE NextUser([kind |-> "fail", who |-> pos,
                    label |-> IF userList[pos].named THEN "name" ELSE "index"], FALSE)
  /\ UNCHANGED <<stepFailed, tasks>>
  /\ MainFrame

\* let { integralUsable: pointF, userName } = await user.getUserInfo():
\* getUserInfo returns res?.data, and destructuring undefined throws
getUserInfoF(what) ==
  /\ Running("sfsy", "getUserInfoF")
  /\ Working(what, fetch(script, what).flips)
  /\ IF fetch(script, what).res = "good" THEN Goto("signin", 1) ELSE Throw
  /\ UNCHANGED tasks
  /\ MainFrame

\* let taskList = await user.getTaskList(); for (let item of taskList):
\* getTaskList returns undefined unless res.data is a list, and for-of over
\* undefined throws
getTaskList(what, list) ==
  /\ Running("sfsy", "getTaskList")
  /\ Working(what, fetch(script, what).flips \/ fetch(script, what).res = "malformed")
  /\ IF fetch(script, what).res = "good"
     THEN /\ tasks' = Awaited(list)
          /\ Goto(IF Awaited(list) = <<>> THEN "getUserInfoE" ELSE "taskTopic", 1)
     ELSE Throw /\ UNCHANGED tasks
  /\ MainFrame

\* case "评论点赞": await user.taskTopic(): w1 is the fetch of the topic
\* list, w2 the comment and praise requests made when a list came back
taskTopic(w1, w2) ==
  /\ Running("sfsy", "taskTopic")
  /\ LET what == IF w1 = "good" THEN w2 ELSE w1 IN
       Working(what, fetch(script, w1).flips \/ (w1 = "good" /\ fetch(script, w2).flips))
  /\ tasks' = Tail(tasks)
  /\ Goto(IF Tail(tasks) = <<>> THEN "getUserInfoE" ELSE "taskTopic", 1)
  /\ MainFrame

\* let { integralSum, integralUsable: pointE } = await user.getUserInfo();
\* if (pointE >= 1000) await user.exchange(); else the line is pushed
getUserInfoE(what, rich) ==
  /\ Running("sfsy", "getUserInfoE")
  /\ Working(what, fetch(script, what).flips)
  /\ IF fetch(script, what).res # "good" THEN Throw
     ELSE IF rich THEN Goto("exchange", 1)
     ELSE Succeeded
  /\ UNCHANGED tasks
  /\ MainFrame

exchange(what) ==
  /\ Running("sfsy", "exchange")
  /\ Working(what, fetch(script, what).flips)
  /\ Succeeded
  /\ UNCHANGED tasks
  /\ MainFrame

\* sendMsg(a, e): a && ($.isNode() ? await notify.sendNotify($.name, a)
\*                                 : $.msg($.name, $.title || "", a, e))
Summary(m, mu, counts, lines) ==
  IF lines = <<>> THEN [calls |-> <<>>, logs |-> <<>>, raised |-> FALSE]
  ELSE IF isNode(m)
       THEN [calls |-> <<HostCall("sendNotify", "name", "", "summary", NoExtras, NoTitle, lines,
                                NoPayload)>>,
             logs |-> <<>>, raised |-> FALSE]
       ELSE msg(m, mu, "name", "counts", "summary", NoExtras, counts, lines)

\* after the loop: $.title = ...; await sendMsg($.notifyMsg.join("\n"), ...)
sendMsg ==
  /\ mainState = "running" /\ pos = Len(userList) + 1
  /\ title' = [total |-> Len(userList), succ |-> succCount,
               failed |-> Len(userList) - succCount]
  /\ notified' = IF notifyMsg = <<>> THEN "none"
                 ELSE IF isNode(markers) THEN "sendNotify" ELSE "msg"
  /\ LET r == Summary(markers, mute, title', notifyMsg)
     IN /\ calls' = calls \o r.calls
        /\ logs' = logs \o r.logs
        /\ mainState' = IF r.raised THEN "threw" ELSE "returned"
  /\ UNCHANGED <<markers, store, kvVars, wVars, reqVars, fnVars, script, userList, pos, pc,
                 stepNo, tasks, ck, notifyMsg, succCount, authFailed, stepFailed,
                 runIn, runpc, inflight, mute, probed>>

\* a step of main when the batch is run once
Alone == UNCHANGED twiceVars

MainNext ==
  \/ \E w1, w2 \in FetchResults : getBeanF(w1, w2) /\ Alone
  \/ \E what \in FetchResults : signin(what) /\ Alone
  \/ \E what \in FetchResults : doTask(what) /\ Alone
  \/ \E what \in FetchResults, limit \in BOOLEAN : step(what, limit) /\ Alone
  \/ \E what \in FetchResults : poolSign(what) /\ Alone
  \/ \E what \in FetchResults : bet(what) /\ Alone
  \/ \E w1, w2 \in FetchResults : getBeanE(w1, w2) /\ Alone
  \/ \E what \in FetchResults : getCode(what) /\ Alone
  \/ \E what \in FetchResults : Login(what) /\ Alone
  \/ \E what \in FetchResults : getUserInfoF(what) /\ Alone
  \/ \E what \in FetchResults, list \in TaskLists : getTaskList(what, list) /\ Alone
  \/ \E w1, w2 \in FetchResults : taskTopic(w1, w2) /\ Alone
  \/ \E what \in FetchResults, rich \in BOOLEAN : getUserInfoE(what, rich) /\ Alone
  \/ \E what \in FetchResults : exchange(what) /\ Alone
  \/ sendMsg /\ Alone

SpecMain == MainInit /\ [][MainNext]_vars

(***************************************************************************)
(* The batch run twice.  The script is loaded anew for each run, so its    *)
(* globals start from their initial values both times, and main writes     *)
(* nothing to the store.  The two runs are stepped in turn: the first run  *)
(* takes a step of main with responses drawn from upstream, and the second *)
(* run then takes its step with the same responses.                        *)
(***************************************************************************)
\* (mutant) the count of the run before is still there when the script loads
LoadedStale(sc, list) ==
  [pos |-> 1, pc |-> FirstStep(sc), stepNo |-> 1, tasks |-> <<>>,
   ck |-> [i \in 1..Len(list) |-> TRUE], notifyMsg |-> <<>>, succCount |-> 1,
   title |-> NoTitle, notified |-> "none", mainState |-> "running",
   authFailed |-> {}, stepFailed |-> {}]

\* $.userIdx = 0, $.userList = [], $.notifyMsg = []; $.succCount = 0; then
\* checkEnv builds a UserInfo with ckStatus = true for every stored account
Loaded(sc, list) ==
  [pos |-> 1, pc |-> FirstStep(sc), stepNo |-> 1, tasks |-> <<>>,
   ck |-> [i \in 1..Len(list) |-> TRUE], notifyMsg |-> <<>>, succCount |-> 0,
   title |-> NoTitle, notified |-> "none", mainState |-> "running",
   authFailed |-> {}, stepFailed |-> {}]

\* the state of the run at turn
Current ==
  [pos |-> pos, pc |-> pc, stepNo |-> stepNo, tasks |-> tasks, ck |-> ck,
   notifyMsg |-> notifyMsg, succCount |-> succCount, title |-> title,
   notified |-> notified, mainState |-> mainState, authFailed |-> authFailed,
   stepFailed |-> stepFailed]

\* one host for each way sendMsg dispatches the summary
TwiceMarkers == {{"module"}, {"surge"}, {"task"}}

TwiceInit ==
  /\ MainStart
  /\ markers \in TwiceMarkers
  /\ other = Loaded(script, userList)
  /\ turn = "first"
  /\ slot = NoInputs
  /\ capture = NoCapture
  /\ penv = <<>> /\ loading = NoLoading

\* what upstream answers to the requests of one step of main
Inputs(w1, w2, flag, list) == [w1 |-> w1, w2 |-> w2, flag |-> flag, list |-> list]

\* the first run takes a step and the responses it got are kept
Drawn(in) ==
  /\ turn = "first"
  /\ slot' = in
  /\ turn' = "handover"
  /\ UNCHANGED <<other, capture, penv, loading>>

FirstRun ==
  \/ \E w1, w2 \in FetchResults : getBeanF(w1, w2) /\ Drawn(Inputs(w1, w2, FALSE, <<>>))
  \/ \E what \in FetchResults : signin(what) /\ Drawn(Inputs(what, "good", FALSE, <<>>))
  \/ \E what \in FetchResults : doTask(what) /\ Drawn(Inputs(what, "good", FALSE, <<>>))
  \/ \E what \in FetchResults, limit \in BOOLEAN :
       step(what, limit) /\ Drawn(Inputs(what, "good", limit, <<>>))
  \/ \E what \in FetchResults : poolSign(what) /\ Drawn(Inputs(what, "good", FALSE, <<>>))
  \/ \E what \in FetchResults : bet(what) /\ Drawn(Inputs(what, "good", FALSE, <<>>))
  \/ \E w1, w2 \in FetchResults : getBeanE(w1, w2) /\ Drawn(Inputs(w1, w2, FALSE, <<>>))
  \/ \E what \in FetchResults : getCode(what) /\ Drawn(Inputs(what, "good", FALSE, <<>>))
  \/ \E what \in FetchResults : Login(what) /\ Drawn(Inputs(what, "good", FALSE, <<>>))
  \/ \E what \in FetchResults :
       getUserInfoF(what) /\ Drawn(Inputs(what, "good", FALSE, <<>>))
  \/ \E what \in FetchResults, list \in TaskLists :
       getTaskList(what, list) /\ Drawn(Inputs(what, "good", FALSE, list))
  \/ \E w1, w2 \in FetchResults : taskTopic(w1, w2) /\ Drawn(Inputs(w1, w2, FALSE, <<>>))
  \/ \E what \in FetchResults, rich \in BOOLEAN :
       getUserInfoE(what, rich) /\ Drawn(Inputs(what, "good", rich, <<>>))
  \/ \E what \in FetchResults : exchange(what) /\ Drawn(Inputs(what, "good", FALSE, <<>>))
  \/ sendMsg /\ Drawn(NoInputs)

\* the second run takes the same step, given the same responses
SecondRun ==
  /\ turn = "second"
  /\ turn' = "handback"
  /\ UNCHANGED <<other, slot, capture, penv, loading>>
  /\ \/ getBeanF(slot.w1, slot.w2)
     \/ signin(slot.w1)
     \/ doTask(slot.w1)
     \/ step(slot.w1, slot.flag)
     \/ poolSign(slot.w1)
     \/ bet(slot.w1)
     \/ getBeanE(slot.w1, slot.w2)
     \/ getCode(slot.w1)
     \/ Login(slot.w1)
     \/ getUserInfoF(slot.w1)
     \/ getTaskList(slot.w1, slot.list)
     \/ taskTopic(slot.w1, slot.w2)
     \/ getUserInfoE(slot.w1, slot.flag)
     \/ exchange(slot.w1)
     \/ sendMsg

\* the other run's turn: what $ holds is per run, the hosts and the store
\* are shared
Handover ==
  /\ turn \in {"handover", "handback"}
  /\ turn' = IF turn = "handover" THEN "second" ELSE "first"
  /\ other' = Current
  /\ pos' = other.pos /\ pc' = other.pc /\ stepNo' = other.stepNo
  /\ tasks' = other.tasks /\ ck' = other.ck /\ notifyMsg' = other.notifyMsg
  /\ succCount' = other.succCount /\ title' = other.title
  /\ notified' = other.notified /\ mainState' = other.mainState
  /\ authFailed' = other.authFailed /\ stepFailed' = other.stepFailed
  /\ UNCHANGED <<markers, store, kvVars, wVars, reqVars, fnVars, runVars, script, userList,
                 slot, capture, penv, loading>>

TwiceNext == FirstRun \/ SecondRun \/ Handover

SpecTwice == TwiceInit /\ [][TwiceNext]_vars

\* C33: an account without userName that fails the authentication probe
\* gets a failure line labelled by its index, and the loop goes on to the
\* next account without throwing.
C33_FallbackLabel ==
  \A i \in authFailed :
    ~userList[i].named =>
      /\ pos > i
      /\ \E k \in DOMAIN notifyMsg :
           notifyMsg[k] = [kind |-> "fail", who |-> i, label |-> "index"]

\* C36: every account's ckStatus is true when main starts, and once it is
\* false no step of the run makes it true again.
C36_CkStatusMonotone ==
  /\ \A i \in DOMAIN ck : ck[i]
  /\ [][\A i \in DOMAIN ck : ~ck[i] => ~ck'[i]]_vars

\* an account that passed the probe, lost its ckStatus in a later step and
\* went through the steps after it
C36_Witness ==
  \E i \in DOMAIN ck : ~ck[i] /\ i \notin authFailed /\ pos > i /\ mainState = "returned"

\* the accounts the loop is through with
Processed == 1..(pos - 1)
FailLines == {k \in DOMAIN notifyMsg : notifyMsg[k].kind = "fail"}

\* C37: the accounts counted in succCount are those whose ckStatus was true
\* right after the probe, whatever happened in the steps after it, and
\* succCount plus the number of failure lines is the number of accounts the
\* loop is through with.
C37_CountedAtProbe ==
  /\ succCount = Cardinality({i \in Processed : i \notin authFailed})
  /\ succCount + Cardinality(FailLines) = pos - 1
  /\ \A k \in DOMAIN notifyMsg :
       notifyMsg[k].kind = "fail" <=> notifyMsg[k].who \in authFailed

\* two accounts: one failed the probe, the other lost its ckStatus in a
\* later step and is counted
C37_Witness ==
  /\ mainState = "returned" /\ pos = 3 /\ succCount = 1
  /\ \E i \in Processed : i \in stepFailed /\ ~ck[i] /\ i \notin authFailed
  /\ \E j \in Processed : j \in authFailed

\* both runs have taken the same number of steps and it is the first run's turn
Level == turn = "first"

\* the lines of a summary, as the accounts they are about
Order(lines) == [k \in DOMAIN lines |-> lines[k].who]

ProxyEnvs == PersistentStoreEnvs \cup {"Quantumult X"}

\* $request is defined only when a proxy host runs the script on a request;
\* the accounts are read with getdata, which is null without a host
RunInputs ==
  [request : {"none", "options", "valid", "invalid"}, userCookie : UserLists \cup {<<>>}]

ckName == <<"ck">>

RunInit ==
  /\ markers \in MarkerSets
  /\ store = [k \in {OtherKey} |-> OtherText]
  /\ nSets = 0 /\ lastSet = NoSet /\ lastGet = NoGet
  /\ WIdle
  /\ ReqIdle
  /\ FnIdle
  /\ script \in {"fyhs", "sfsy"}
  /\ Loads(script, markers)
  /\ userList = <<>>
  /\ pos = 0
  /\ pc = "none"
  /\ stepNo = 0
  /\ tasks = <<>>
  /\ ck = <<>>
  /\ notifyMsg = <<>>
  /\ succCount = 0
  /\ title = NoTitle
  /\ notified = "none"
  /\ mainState = "none"
  /\ authFailed = {}
  /\ stepFailed = {}
  /\ runIn \in RunInputs
  /\ runIn.request # "none" => getEnv(markers) \in ProxyEnvs
  /\ getEnv(markers) = "undefined" => runIn.userCookie = <<>>
  /\ runpc = "start"
  /\ inflight = <<>>
  /\ calls = <<>>
  /\ logs = <<>>
  /\ mute = Unmuted
  /\ probed = "none"
  /\ TwiceIdle

RunFrame ==
  UNCHANGED <<markers, kvVars, wVars, reqVars, fnVars, runIn, mute, probed, script, twiceVars>>

MainUntouched ==
  UNCHANGED <<userList, pos, pc, stepNo, tasks, ck, notifyMsg, succCount, title, notified,
              mainState, authFailed, stepFailed>>

\* if (typeof $request != "undefined") await getCookie(); else { [if
\* (!(await getNotice())) throw ...;] await checkEnv(); await main() }
Start ==
  /\ runpc = "start"
  /\ runpc' = IF runIn.request # "none" THEN "getCookie"
              ELSE IF script = "sfsy" THEN "getNotice" ELSE "checkEnv"
  /\ UNCHANGED <<store, inflight, calls, logs>>
  /\ MainUntouched
  /\ RunFrame

\* getCookie(): an OPTIONS request returns at once; a body without the
\* fields throws; otherwise the account is stored with setjson and $.msg
\* announces it
getCookie(wOk) ==
  /\ runpc = "getCookie"
  /\ IF runIn.request = "options"
     THEN runpc' = "finally" /\ UNCHANGED <<store, calls, logs>>
     ELSE IF runIn.request = "invalid"
     THEN runpc' = "catch" /\ UNCHANGED <<store, calls, logs>>
     ELSE LET r == msg(markers, mute, "name", "updated", "", NoExtras, NoTitle, <<>>)
          IN /\ store' = setdata(markers, store, "accounts", ckName, wOk).st
             /\ calls' = calls \o r.calls
             /\ logs' = logs \o r.logs
             /\ runpc' = IF r.raised THEN "catch" ELSE "finally"
  /\ UNCHANGED inflight
  /\ MainUntouched
  /\ RunFrame

\* getNotice(): Promise.all(urls.map(url => Request(url))) starts the two
\* Requests before it awaits either
getNotice ==
  /\ runpc = "getNotice"
  /\ inflight' = <<"pending", "pending">>
  /\ runpc' = "noticeWait"
  /\ UNCHANGED <<store, calls, logs>>
  /\ MainUntouched
  /\ RunFrame

NoticeResults == {"notice", "undefined", "rejected"}

\* one of the two Requests settles: with the notice, with undefined or
\* another body (a transport failure, a file without notice), or by its
\* timeout.  Promise.all rejects with the first rejection and resolves when
\* both have resolved; getNotice returns true only for responses[0].notice,
\* and the entry point throws otherwise.
NoticeSettle(k, what) ==
  /\ runpc # "ended"
  /\ k \in DOMAIN inflight /\ inflight[k] = "pending"
  /\ getEnv(markers) = "undefined" => what = "undefined"
  /\ inflight' = [inflight EXCEPT ![k] = what]
  /\ runpc' = IF runpc # "noticeWait" THEN runpc
              ELSE IF what = "rejected" THEN "catch"
              ELSE IF \E j \in DOMAIN inflight' : inflight'[j] = "pending" THEN runpc
              ELSE IF inflight'[1] = "notice" THEN "checkEnv" ELSE "catch"
  /\ UNCHANGED <<store, calls, logs>>
  /\ MainUntouched
  /\ RunFrame

\* checkEnv(): throws without a stored account, else builds $.userList
checkEnv ==
  /\ runpc = "checkEnv"
  /\ IF runIn.userCookie = <<>>
     THEN /\ runpc' = "catch"
          /\ MainUntouched
     ELSE /\ runpc' = "main"
          /\ userList' = runIn.userCookie
          /\ ck' = [i \in 1..Len(runIn.userCookie) |-> TRUE]
          /\ pos' = 1
          /\ pc' = FirstStep(script)
          /\ stepNo' = 1
          /\ mainState' = "running"
          /\ UNCHANGED <<tasks, notifyMsg, succCount, title, notified, authFailed, stepFailed>>
  /\ UNCHANGED <<store, inflight, calls, logs>>
  /\ RunFrame

\* .catch((e) => { $.logErr(e), $.msg($.name, `⛔️ script run error!`, e.message || e) })
Catch ==
  /\ runpc = "catch" \/ (runpc = "main" /\ mainState = "threw")
  /\ LET r == msg(markers, mute, "name", "error", "message", NoExtras, NoTitle, <<>>)
     IN /\ calls' = calls \o <<Call("logErr")>> \o r.calls
        /\ logs' = logs \o logErr \o r.logs
  /\ runpc' = "finally"
  /\ UNCHANGED <<store, inflight>>
  /\ MainUntouched
  /\ RunFrame

\* .finally(async () => { $.done({}) })
Finally ==
  /\ runpc = "finally" \/ (runpc = "main" /\ mainState = "returned")
  /\ LET r == done(markers)
     IN /\ calls' = calls \o r.calls
        /\ logs' = logs \o r.logs
  /\ runpc' = "ended"
  /\ UNCHANGED <<store, inflight>>
  /\ MainUntouched
  /\ RunFrame

RunNext ==
  \/ Start
  \/ \E wOk \in BOOLEAN : getCookie(wOk)
  \/ getNotice
  \/ \E k \in 1..2, what \in NoticeResults : NoticeSettle(k, what)
  \/ checkEnv
  \/ MainNext
  \/ Catch
  \/ Finally

SpecRun == RunInit /\ [][RunNext]_vars

\* every awaited call returns: the host answers or the timer of the race fires
SpecRunFair == SpecRun /\ WF_vars(RunNext)

(***************************************************************************)
(* Properties of a run                                                     *)
(***************************************************************************)
Unsettled == {k \in DOMAIN inflight : inflight[k] = "pending"}

\* C23: requests are awaited one after the other: at no time is more than
\* one Request started by the script still unsettled.
C23_OneRequestAtATime == Cardinality(Unsettled) <= 1

\* an exception has left the top-level function
Escaped == runpc = "catch" \/ (runpc = "main" /\ mainState = "threw")

CallsOf(c) == {k \in DOMAIN calls : calls[k].call = c}
ErrorReports == {k \in CallsOf("msg") : calls[k].subtitle = "error"}
Raised(k) == k < Len(calls) /\ calls[k + 1].call = "ReferenceError"

\* the run has ended with the failure logged and reported once, done called
\* after the report, and no summary sent after it
Handled ==
  /\ runpc = "ended"
  /\ Cardinality(CallsOf("logErr")) = 1
  /\ \E k \in DOMAIN calls :
       /\ ErrorReports = {k}
       /\ ~Raised(k)
       /\ \E d \in CallsOf("done") : d > k
       /\ \A j \in DOMAIN calls : j > k => calls[j].body # "summary"

\* C24: an exception that leaves the top-level function is caught at the
\* outermost boundary, logged and reported by one "script run error!"
\* notification; done still runs afterwards and no summary is sent.
C24_FatalIsReported == Escaped ~> Handled

\* done has been called once, as the last call of the run, and has ended
\* the process under Node.js and signalled $done on a proxy host
Completed ==
  /\ \E k \in DOMAIN calls : CallsOf("done") = {k} /\ k = Len(calls) - 1
  /\ isNode(markers) => calls[Len(calls)].call = "process.exit"
  /\ getEnv(markers) \in ProxyEnvs =>
       (calls[Len(calls)].call = "$done" /\ CallsOf("process.exit") = {})

Finished == mainState \in {"returned", "threw"}

FailLineFor(a) ==
  \E i \in 1..Len(notifyMsg) :
    notifyMsg[i].kind = "fail" /\ notifyMsg[i].who = a /\ notifyMsg[i].label # "undefined"

\* C5: when at most one account fails the authentication probe and nothing
\* else goes wrong, main returns with one summary line per account, the
\* failed account has a failure line naming it, and succCount is the number
\* of accounts less the failed one.
C5_OneLinePerAccount ==
  (Finished /\ stepFailed = {} /\ Cardinality(authFailed) <= 1) =>
    /\ mainState = "returned"
    /\ Len(notifyMsg) = Len(userList)
    /\ succCount = Len(userList) - Cardinality(authFailed)
    /\ \A a \in authFailed : FailLineFor(a)

\* C6: when every account passes the probe, a request that fails in a later
\* step does not make main throw, and every account gets its summary line.
C6_StepErrorsStayLocal ==
  (Finished /\ authFailed = {}) =>
    (mainState = "returned" /\ Len(notifyMsg) = Len(userList))

\* the native notification calls made so far
NotifyCalls == {k \in DOMAIN calls : calls[k].call \in NativeNotify}

\* C26: when main has returned, one notification has been sent for the run,
\* in every environment: it carries the counts total = N, succeeded =
\* succCount, failed = N - succCount, and its body is the accounts' lines
\* in account order.
C26_OneAggregate ==
  mainState = "returned" =>
    \E k \in DOMAIN calls :
      /\ NotifyCalls = {k}
      /\ calls[k].counts = [total |-> Len(userList), succ |-> succCount,
                            failed |-> Len(userList) - succCount]
      /\ calls[k].lines = notifyMsg
      /\ \A i \in DOMAIN notifyMsg : notifyMsg[i].who = i

\* the steps main runs for an account once the probe has passed
WorkingSteps == {"signin", "doTask", "step", "poolSign", "bet", "getBeanE",
                 "getUserInfoF", "getTaskList", "taskTopic", "getUserInfoE", "exchange"}

\* a step of the current account's workflow is about to issue its request
AtWorkingStep == mainState = "running" /\ pos <= Len(userList) /\ pc \in WorkingSteps

\* C22: accounts are processed one at a time in list order: while account
\* pos is being worked on, the lines of the accounts before it, and only
\* those, are recorded, in account order; the loop moves from an account to
\* the next one only, and only in the step that records the account's line.
C22_InOrder ==
  /\ Len(notifyMsg) = pos - 1
  /\ \A i \in 1..Len(notifyMsg) : notifyMsg[i].who = i

C22_Witness ==
  /\ pos = 2 /\ pc \in WorkingSteps /\ mainState = "running"
  /\ Len(notifyMsg) = 1 /\ notifyMsg[1].who = 1

\* C21: once a step has flipped the account's ckStatus to false, no later
\* step of that account issues a request: every working step that runs, runs
\* for an account whose ckStatus is still true.
C21_ShortCircuit == [][AtWorkingStep => ck[pos]]_vars

(***************************************************************************)
(* Request as a function: from its argument t to the options object the    *)
(* native transport receives, and from the response to the value returned. *)
(* Texts (URLs, bodies) are sequences of characters; a name, a number or a *)
(* serialized object is one element.                                       *)
(***************************************************************************)
\* the values a field of a body or of params can have; text is what
\* `${i}` gives for a primitive and JSON.stringify(i) for an object
FStr(x) == [kind |-> "str", text |-> x]
FNum(x) == [kind |-> "num", text |-> x]
FNull == [kind |-> "null", text |-> <<"null">>]
FUndef == [kind |-> "undef", text |-> <<"undefined">>]
FObj(x) == [kind |-> "obj", text |-> x]
Field(k, v) == [k |-> k, v |-> v]

\* a mapping is the sequence of its fields in for-in order
NoMapping == [given |-> FALSE, fields |-> <<>>]
Mapping(fs) == [given |-> TRUE, fields |-> fs]

\* (mutant) every field is written
RECURSIVE PairsAll(_)
PairsAll(fs) ==
  IF fs = <<>> THEN <<>>
  ELSE <<Head(fs).k, "=">> \o Head(fs).v.text \o <<"&">> \o PairsAll(Tail(fs))

\* queryStr, the loop: null != i && "" !== i && (e += `${s}=${i}&`)
RECURSIVE Pairs(_)
Pairs(fs) ==
  IF fs = <<>> THEN <<>>
  ELSE LET i == Head(fs).v
       IN (IF i.kind \notin {"null", "undef"} /\ ~(i.kind = "str" /\ i.text = <<>>)
           THEN <<Head(fs).k, "=">> \o i.text \o <<"&">>
           ELSE <<>>) \o Pairs(Tail(fs))

\* queryStr(t): the pairs, then e.substring(0, e.length - 1)
queryStr(t) ==
  LET e == IF t.given THEN Pairs(t.fields) ELSE <<>>
  IN SubSeq(e, 1, Len(e) - 1)

\* JSON.stringify of a mapping
JsonValue(v) == IF v.kind = "str" THEN <<"\"">> \o v.text \o <<"\"">> ELSE v.text
RECURSIVE JsonMembers(_)
JsonMembers(fs) ==
  IF fs = <<>> THEN <<>>
  ELSE (IF Head(fs).v.kind = "undef" THEN <<>>
        ELSE <<",", "\"", Head(fs).k, "\"", ":">> \o JsonValue(Head(fs).v))
       \o JsonMembers(Tail(fs))
toStr(t) ==
  LET ms == JsonMembers(t.fields)
  IN <<"{">> \o (IF ms = <<>> THEN <<>> ELSE Tail(ms)) \o <<"}">>

\* the body of a request: absent, a string, or a mapping
NoBody == [kind |-> "absent", text |-> <<>>, map |-> NoMapping]
StrBody(x) == [kind |-> "str", text |-> x, map |-> NoMapping]
MapBody(fs) == [kind |-> "map", text |-> <<>>, map |-> Mapping(fs)]

FormType == "application/x-www-form-urlencoded"
JsonType == "application/json;charset=UTF-8"
ContentHeaders == {"Content-Type", "Content-Length", "content-type", "content-length"}

SetHeader(h, k, v) == [x \in (DOMAIN h) \cup {k} |-> IF x = k THEN v ELSE h[x]]
DeleteHeaders(h, ks) == [x \in (DOMAIN h) \ ks |-> h[x]]
HasHeader(h, k) == k \in DOMAIN h

\* y = "string" == typeof s ? s : (s && "form" == n ? $.queryStr(s) : $.toStr(s))
EncodedBody(body, n) ==
  CASE body.kind = "str" -> [kind |-> "text", text |-> body.text]
    [] body.kind = "map" ->
         [kind |-> "text",
          text |-> IF n = "form" THEN queryStr(body.map) ELSE toStr(body.map)]
    [] OTHER -> [kind |-> "undefined", text |-> <<>>]

\* (mutant) the URL of a POST gets its query only when params are given
RequestOptionsQueryIfGiven(t) ==
  LET p == Method(t)
      n == IF t.dataType = "absent" THEN "form" ELSE t.dataType
  IN [method |-> p,
      url |-> IF p = "post" /\ t.params.given THEN t.url \o <<"?">> \o queryStr(t.params)
              ELSE t.url,
      headers |-> IF n = "json" THEN SetHeader(t.headers, "Content-Type", JsonType)
                  ELSE t.headers,
      body |-> IF p = "post" THEN EncodedBody(t.body, n)
               ELSE IF t.hasBody THEN [kind |-> "raw", text |-> <<>>]
               ELSE [kind |-> "none", text |-> <<>>],
      params |-> t.params]

\* the options object l that Request passes to $.http[p]
RequestOptions(t) ==
  LET p == Method(t)
      n == IF t.dataType = "absent" THEN "form" ELSE t.dataType
  IN [method |-> p,
      url |-> IF p = "post" THEN t.url \o <<"?">> \o queryStr(t.params) ELSE t.url,
      headers |-> IF n = "json" THEN SetHeader(t.headers, "Content-Type", JsonType)
                  ELSE t.headers,
      body |-> IF p = "post" THEN EncodedBody(t.body, n)
               ELSE IF t.hasBody THEN [kind |-> "raw", text |-> <<>>]
               ELSE [kind |-> "none", text |-> <<>>],
      params |-> t.params]

\* (mutant) Env.get leaves the URL alone
EnvGetBare(l) ==
  [l EXCEPT !.headers = DeleteHeaders(l.headers, ContentHeaders)]

\* Env.get: the content headers are deleted and
\* t.params && (t.url += "?" + this.queryStr(t.params))
EnvGet(l) ==
  [l EXCEPT !.headers = DeleteHeaders(l.headers, ContentHeaders),
            !.url = IF l.params.given THEN l.url \o <<"?">> \o queryStr(l.params)
                    ELSE l.url]

\* (mutant) Env.post always declares a form body
EnvPostForm(l) ==
  [l EXCEPT !.headers = SetHeader(l.headers, "content-type", FormType)]

\* Env.post: t.body && t.headers && !t.headers["Content-Type"] &&
\* !t.headers["content-type"] && (t.headers["content-type"] = form type)
EnvPost(l) ==
  [l EXCEPT !.headers =
     DeleteHeaders(
       IF l.body.kind = "text" /\ l.body.text # <<>>
          /\ ~HasHeader(l.headers, "Content-Type") /\ ~HasHeader(l.headers, "content-type")
       THEN SetHeader(l.headers, "content-type", FormType)
       ELSE l.headers,
       {"Content-Length", "content-length"})]

\* $.http[p](l): what the host's transport is called with
NativeOptions(t) ==
  IF Method(t) = "post" THEN EnvPost(RequestOptions(t)) ELSE EnvGet(RequestOptions(t))

\* toObj(t): JSON.parse in a try, null when it throws
toObj(x) == IF ParseThrows(x) THEN JNull ELSE JSONparse(x)

\* the response object the callback of Env.get / Env.post passes on
Envelope(b) ==
  Obj([k \in {"status", "headers", "body"} |->
         CASE k = "body" -> b [] k = "status" -> Num("200") [] OTHER -> Obj(NoProps)])

\* .then(t => "data" == u ? $.toObj(t.body) || t.body : $.toObj(t) || t)
Shape(u, resp) ==
  IF u = "data"
  THEN (IF Truthy(toObj(resp.f["body"])) THEN toObj(resp.f["body"]) ELSE resp.f["body"])
  ELSE (IF Truthy(toObj(resp)) THEN toObj(resp) ELSE resp)

ResultType(t) == IF t.resultType = "absent" THEN "data" ELSE t.resultType

Url == <<"u">>
MixedFields ==
  <<Field("a", FNum(<<"1">>)), Field("b", FNull), Field("c", FStr(<<>>)),
    Field("d", FObj(<<"{e}">>)), Field("f", FUndef), Field("g", FStr(<<"x">>))>>
Bodies ==
  {NoBody, StrBody(<<"raw">>), MapBody(<<Field("a", FNum(<<"1">>))>>),
   MapBody(MixedFields), MapBody(<<Field("b", FNull)>>)}
Params ==
  {NoMapping, Mapping(<<Field("q", FNum(<<"1">>))>>),
   Mapping(<<Field("q", FStr(<<"x">>)), Field("r", FStr(<<>>))>>)}
CallerHeaders ==
  {NoProps, [k \in {"Accept"} |-> "*/*"], [k \in {"Content-Type"} |-> "text/plain"]}
ResponseBodies ==
  {JsonStr(Obj([k \in {"code"} |-> Num("1")])), JsonStr(Num("5")), JsonStr(Num("0")),
   JsonStr(JNull), Str("h"), Str("")}

BuildRequests ==
  {[made |-> TRUE, url |-> Url, type |-> ty, hasBody |-> b.kind # "absent", body |-> b,
    params |-> a, dataType |-> n, resultType |-> u, headers |-> r] :
     ty \in {"none", "get", "post"}, b \in Bodies, a \in Params,
     n \in {"absent", "form", "json"}, u \in {"absent", "data", "all"},
     r \in CallerHeaders}

BuildInit ==
  /\ markers \in MarkerSets
  /\ store = [k \in {OtherKey} |-> OtherText]
  /\ nSets = 0 /\ lastSet = NoSet /\ lastGet = NoGet
  /\ WIdle
  /\ ReqIdle
  /\ MainIdle
  /\ RunIdle
  /\ TwiceIdle
  /\ reqT \in BuildRequests
  /\ native = NoCall /\ reply = NoCall
  /\ lsIn = NoCall /\ lsOut = NoCall

\* Request(t) up to the call of the host's transport (no transport, no call)
Dispatch ==
  /\ reqT # NoCall /\ native = NoCall
  /\ getEnv(markers) # "undefined"
  /\ native' = [made |-> TRUE, opts |-> NativeOptions(reqT)]
  /\ UNCHANGED <<markers, store, kvVars, wVars, reqVars, mainVars, reqT, reply, lsIn, lsOut, runVars, twiceVars>>

\* the transport answers with body b and Request returns
Respond(b) ==
  /\ native # NoCall /\ reply = NoCall
  /\ reply' = [made |-> TRUE, body |-> b,
               result |-> Shape(ResultType(reqT), Envelope(b))]
  /\ UNCHANGED <<markers, store, kvVars, wVars, reqVars, mainVars, reqT, native, lsIn, lsOut, runVars, twiceVars>>

BuildNext == Dispatch \/ \E b \in ResponseBodies : Respond(b)

SpecBuild == BuildInit /\ [][BuildNext]_vars

(***************************************************************************)
(* Properties of the request handed over and of the value returned         *)
(***************************************************************************)
Handed == native # NoCall

\* C40: the URL of every POST reaches the transport as url, '?' and the
\* query string of params, which leaves a trailing '?' when there are no
\* params; a GET without params keeps its url.
C40_PostAlwaysQueried ==
  Handed =>
    /\ native.opts.method = "post" =>
         native.opts.url = reqT.url \o <<"?">> \o queryStr(reqT.params)
    /\ (native.opts.method = "post" /\ ~reqT.params.given) =>
         native.opts.url = reqT.url \o <<"?">>
    /\ (native.opts.method = "get" /\ ~reqT.params.given) =>
         native.opts.url = reqT.url

C40_Witness ==
  /\ Handed /\ native.opts.method = "post" /\ ~reqT.params.given
  /\ native.opts.url = <<"u", "?">>

\* let { headers: r = {} } = t; ... l = { ..., headers: r, ... }: the options
\* handed on hold the caller's own headers object, so the caller's mapping
\* after the call is the one the transport was given
HeadersAfter == native.opts.headers

\* C39: the headers mapping the caller supplied holds the same entries after
\* the request as before it, whatever the method and the encoding.
C39_HeadersUntouched == Handed => HeadersAfter = reqT.headers

\* C12: a GET with params reaches the transport with url?query, the query
\* appended once; a POST with params has the same query appended to its URL
\* and carries its body in the body field.
C12_UrlAssembled ==
  (Handed /\ reqT.params.given) =>
    /\ native.opts.url = reqT.url \o <<"?">> \o queryStr(reqT.params)
    /\ Len(SelectSeq(native.opts.url, LAMBDA c : c = "?")) = 1
    /\ native.opts.method = "post" =>
         native.opts.body.kind \in {"text", "undefined"}

C12_Witness ==
  /\ Handed /\ native.opts.method = "get"
  /\ reqT.params = Mapping(<<Field("q", FStr(<<"x">>)), Field("r", FStr(<<>>))>>)
  /\ native.opts.url = <<"u", "?", "q", "=", "x">>

\* the fields of a mapping that have something to send
Sendable(fs) ==
  SelectSeq(fs, LAMBDA x : x.v.kind \notin {"null", "undef"} /\ x.v # FStr(<<>>))

\* key=value of every field, joined by &
RECURSIVE Joined(_)
Joined(fs) ==
  IF fs = <<>> THEN <<>>
  ELSE <<Head(fs).k, "=">> \o Head(fs).v.text
       \o (IF Tail(fs) = <<>> THEN <<>> ELSE <<"&">> \o Joined(Tail(fs)))

BodyEncoding == IF reqT.dataType = "absent" THEN "form" ELSE reqT.dataType

\* C13: the body of a POST is the caller's string unchanged; a mapping is
\* sent, with form encoding (the default), as key=value joined by & in
\* field order without its null, undefined and empty-string fields and with
\* object fields as JSON text, and with json encoding as its JSON text.
C13_BodyEncoded ==
  (Handed /\ native.opts.method = "post" /\ reqT.hasBody) =>
    /\ native.opts.body.kind = "text"
    /\ reqT.body.kind = "str" => native.opts.body.text = reqT.body.text
    /\ (reqT.body.kind = "map" /\ BodyEncoding = "form") =>
         native.opts.body.text = Joined(Sendable(reqT.body.map.fields))
    /\ (reqT.body.kind = "map" /\ BodyEncoding = "json") =>
         native.opts.body.text = toStr(reqT.body.map)

C13_Witness ==
  /\ Handed /\ reqT.body = MapBody(MixedFields) /\ reqT.dataType = "absent"
  /\ native.opts.method = "post"
  /\ native.opts.body.text = <<"a", "=", "1", "&", "d", "=", "{e}", "&", "g", "=", "x">>

\* the scenario of C14: a mapping with something to send, no type, no
\* content type from the caller
ObjectBodyCall ==
  /\ Handed /\ reqT.type = "none" /\ reqT.body.kind = "map"
  /\ Sendable(reqT.body.map.fields) # <<>>
  /\ ~HasHeader(reqT.headers, "Content-Type")

\* C14: such a request reaches the transport as a POST; with form encoding
\* (the default) its body is the form text and its content type the form
\* type, with json encoding its content type is the JSON type; never both.
C14_ObjectBodyPost ==
  ObjectBodyCall =>
    /\ native.opts.method = "post"
    /\ BodyEncoding = "form" =>
         /\ native.opts.body.text = Joined(Sendable(reqT.body.map.fields))
         /\ HasHeader(native.opts.headers, "content-type")
         /\ native.opts.headers["content-type"] = FormType
         /\ ~HasHeader(native.opts.headers, "Content-Type")
    /\ BodyEncoding = "json" =>
         /\ HasHeader(native.opts.headers, "Content-Type")
         /\ native.opts.headers["Content-Type"] = JsonType
         /\ ~HasHeader(native.opts.headers, "content-type")

C14_Witness ==
  /\ ObjectBodyCall /\ reqT.body = MapBody(<<Field("a", FNum(<<"1">>))>>)
  /\ reqT.dataType = "absent" /\ reqT.params = NoMapping
  /\ native.opts.method = "post"
  /\ native.opts.body.text = <<"a", "=", "1">>
  /\ native.opts.headers["content-type"] = FormType

\* C15: with result type data, Request returns the parsed body whenever the
\* body is valid JSON and the raw body otherwise; with the full result type
\* it returns the whole response.
C15_ResultShaped ==
  reply # NoCall =>
    IF ResultType(reqT) = "data"
    THEN reply.result = IF ParseThrows(reply.body) THEN reply.body
                        ELSE JSONparse(reply.body)
    ELSE reply.result = Envelope(reply.body)

(***************************************************************************)
(* getCookie.  Every capture is a run of the script started with $request: *)
(* the stored list is read when the script loads, getCookie upserts the    *)
(* captured account and writes the list back under ckName.                 *)
(***************************************************************************)
MaxCaptures == 3

\* the userId of a captured body: a number, the same number as a string,
\* another id, or none
UserIds == {Num("1"), Str("1"), Str("2"), Undef}
TokenOf(n) == CASE n = 1 -> "t1" [] n = 2 -> "t2" [] n = 3 -> "t3" [] n = 4 -> "t4" [] OTHER -> "t"

\* a == b on the values a userId takes
LooseEq(a, b) ==
  IF a.t \in {"undef", "null"} \/ b.t \in {"undef", "null"}
  THEN a.t \in {"undef", "null"} /\ b.t \in {"undef", "null"}
  ELSE a.s = b.s

\* const userCookie = $.toObj($.getdata(ckName)) || []
userCookie(m, st) ==
  LET x == toObj(getdata(m, st, ckName))
  IN IF Truthy(x) THEN x ELSE Arr(NoProps, 0)

\* the elements of an array, in order
Elements(list) == [k \in 1..list.n |-> PropOf(list, IdxKey(k - 1))]

\* userCookie.findIndex(e => e.userId == newData.userId), counted from 1
\* (0 when there is none)
findIndex(list, id) ==
  LET hits == {k \in 1..list.n : LooseEq(PropOf(Elements(list)[k], "userId"), id)}
  IN IF hits = {} THEN 0 ELSE CHOOSE k \in hits : \A j \in hits : k <= j

\* (mutant) the captured account is pushed whatever the list holds
UpsertPush(list, newData) == Assign(list, IdxKey(list.n), newData)

\* userCookie[index] ? userCookie[index] = newData : userCookie.push(newData)
Upsert(list, newData) ==
  LET index == findIndex(list, PropOf(newData, "userId"))
  IN IF index > 0 /\ Truthy(Elements(list)[index])
     THEN Assign(list, IdxKey(index - 1), newData)
     ELSE Assign(list, IdxKey(list.n), newData)

\* const newData = { "userId": ..., "token": ..., "userName": ... }
NewData(id, n) ==
  Obj([k \in {"userId", "token"} |-> IF k = "userId" THEN id ELSE Str(TokenOf(n))])

\* the fields getCookie requires: token and userPhone in adapter.js, memberId
\* (the userId itself) in the second script
Captured(sc, cred, id) == IF sc = "fyhs" THEN cred ELSE Truthy(id)

CaptureInit ==
  /\ markers \in {{"surge"}, {"task"}, {"loon"}}
  /\ store = [k \in {OtherKey} |-> OtherText]
  /\ nSets = 0 /\ lastSet = NoSet /\ lastGet = NoGet
  /\ WIdle
  /\ ReqIdle
  /\ FnIdle
  /\ RunIdle
  /\ TwiceIdle
  /\ script \in {"fyhs", "sfsy"}
  /\ Loads(script, markers)
  /\ userList = <<>> /\ pos = 0 /\ pc = "none" /\ stepNo = 0 /\ tasks = <<>> /\ ck = <<>>
  /\ notifyMsg = <<>> /\ succCount = 0 /\ title = NoTitle /\ notified = "none"
  /\ mainState = "none" /\ authFailed = {} /\ stepFailed = {}

\* a run started with $request: getCookie, then the catch handler if it
\* threw, then done
Capture(method, cred, id, wOk) ==
  /\ capture.n < MaxCaptures
  /\ capture' = [n |-> capture.n + 1, method |-> method, cred |-> cred, id |-> id,
                 wOk |-> wOk, before |-> store]
  /\ LET list == userCookie(markers, store)
         said == msg(markers, mute, "name", "updated", "", NoExtras, NoTitle, <<>>)
         failed == msg(markers, mute, "name", "error", "message", NoExtras, NoTitle, <<>>)
         end == done(markers)
     IN IF method = "OPTIONS"
        THEN /\ calls' = end.calls /\ logs' = end.logs
             /\ UNCHANGED store
        ELSE IF ~Captured(script, cred, id)
        THEN /\ calls' = <<Call("logErr")>> \o failed.calls \o end.calls
             /\ logs' = logErr \o failed.logs \o end.logs
             /\ UNCHANGED store
        ELSE /\ store' = setval(markers, store,
                                JSONstringify(Upsert(list, NewData(id, capture.n + 1))),
                                ckName, wOk).st
             /\ calls' = said.calls \o end.calls
             /\ logs' = said.logs \o end.logs
  /\ UNCHANGED <<markers, kvVars, wVars, reqVars, mainVars, fnVars, runIn, runpc, inflight,
                 mute, probed, other, turn, slot, penv, loading>>

CaptureNext ==
  \E method \in {"OPTIONS", "POST"}, cred \in BOOLEAN, id \in UserIds, wOk \in BOOLEAN :
    Capture(method, cred, id, wOk)

SpecCapture == CaptureInit /\ [][CaptureNext]_vars

\* the stored account list, as the next run will read it
Accounts0(st) == Elements(userCookie(markers, st))
StoredIds(st) == [k \in DOMAIN Accounts0(st) |-> PropOf(Accounts0(st)[k], "userId")]

\* the last run was a capture with the required fields
Upserting ==
  capture.n > 0 /\ capture.method # "OPTIONS" /\ Captured(script, capture.cred, capture.id)

OnePerUserId ==
  \A j, k \in DOMAIN StoredIds(store) :
    j < k => ~LooseEq(StoredIds(store)[j], StoredIds(store)[k])

\* the captured record took the place of the one with its userId, or the
\* end of the list when there was none
UpsertedInPlace ==
  LET was == Accounts0(capture.before)
      now == Accounts0(store)
      new == Serialized(NewData(capture.id, capture.n))
      at == findIndex(userCookie(markers, capture.before), capture.id)
  IN IF at > 0
     THEN /\ Len(now) = Len(was)
          /\ now[at] = new
          /\ \A k \in DOMAIN was : k # at => now[k] = was[k]
     ELSE now = Append(was, new)

ListUnchanged == Accounts0(store) = Accounts0(capture.before)

EnvKeys == {"A", "B"}

\* an entry of QL_ENVS: null, without value, with an empty value, with a
\* value that is not JSON, with a value that is
Entries == {JNull, Obj(NoProps), Obj(P1("value", Str(""))), Obj(P1("value", Str("x"))),
            Obj(P1("value", JsonStr(Obj(P1("a", Str("x"))))))}

\* process.env.QL_ENVS: not set, empty, not JSON, null, or an object
QlTexts ==
  {Undef, Str(""), Str("x"), JsonStr(JNull)}
    \cup {JsonStr(Obj(f)) : f \in UNION {[ks -> Entries] : ks \in SUBSET EnvKeys}}

\* for (const key in qlEnvs) if (qlEnvs.hasOwnProperty(key)): the own keys
\* in the order of the loop
RECURSIVE InOrder(_)
InOrder(ks) ==
  IF ks = {} THEN <<>>
  ELSE LET k == CHOOSE x \in ks : \A y \in ks : x = "A" \/ y # "A"
       IN <<k>> \o InOrder(ks \ {k})

OwnKeys(d) == IF d.t = "obj" THEN InOrder(DOMAIN d.f) ELSE <<>>

LoadInit ==
  /\ markers \in MarkerSets
  /\ store = [k \in {OtherKey} |-> OtherText]
  /\ nSets = 0 /\ lastSet = NoSet /\ lastGet = NoGet
  /\ WIdle
  /\ ReqIdle
  /\ MainIdle
  /\ FnIdle
  /\ RunIdle
  /\ other = "none" /\ turn = "once" /\ slot = NoInputs /\ capture = NoCapture
  /\ penv \in [EnvKeys -> {Undef, Str("old")}]
  /\ \E ql \in QlTexts : loading = [pc |-> "start", ql |-> ql, keys |-> <<>>, before |-> penv]

LoadFrame ==
  UNCHANGED <<markers, store, kvVars, wVars, reqVars, mainVars, fnVars, runVars, other, turn,
              slot, capture>>

\* const qlEnvsStr = process.env.QL_ENVS; if (qlEnvsStr) { try { const qlEnvs
\* = JSON.parse(qlEnvsStr); ... } catch (error) { ... } } else { ... }
ReadQlEnvs ==
  /\ loading.pc = "start"
  /\ loading' =
       [loading EXCEPT
          !.pc = IF ~HasProcess(markers) THEN "threw"
                 ELSE IF Truthy(loading.ql) /\ ~ParseThrows(loading.ql) THEN "keys"
                 ELSE "done",
          !.keys = IF HasProcess(markers) /\ Truthy(loading.ql) /\ ~ParseThrows(loading.ql)
                   THEN OwnKeys(JSONparse(loading.ql)) ELSE <<>>]
  /\ UNCHANGED penv
  /\ LoadFrame

\* one pass of the loop: if (dataInfo && dataInfo.value) { try {
\* process.env[key] = JSON.stringify(JSON.parse(dataInfo.value)) } catch { } }
SetKey(env, keys, dataInfo) ==
  LET key == Head(keys)
      value == PropOf(dataInfo, "value")
  IN IF Truthy(dataInfo) /\ Truthy(value) /\ ~ParseThrows(value)
     THEN [env |-> [env EXCEPT ![key] = JSONstringify(JSONparse(value))],
           keys |-> Tail(keys)]
     ELSE [env |-> env, keys |-> Tail(keys)]

NextKey ==
  /\ loading.pc = "keys"
  /\ IF loading.keys = <<>>
     THEN loading' = [loading EXCEPT !.pc = "done"] /\ UNCHANGED penv
     ELSE LET r == SetKey(penv, loading.keys,
                          PropOf(JSONparse(loading.ql), Head(loading.keys)))
          IN penv' = r.env /\ loading' = [loading EXCEPT !.keys = r.keys]
  /\ LoadFrame

LoadNext == ReadQlEnvs \/ NextKey

SpecLoad == LoadInit /\ [][LoadNext]_vars

\* the entry of QL_ENVS under a key, when QL_ENVS is an object that has it
EntryOf(key) ==
  LET d == toObj(loading.ql)
  IN IF Truthy(loading.ql) /\ d.t = "obj" /\ key \in DOMAIN d.f THEN d.f[key] ELSE Undef

Parsable(key) ==
  /\ Truthy(EntryOf(key))
  /\ Truthy(PropOf(EntryOf(key), "value"))
  /\ ~ParseThrows(PropOf(EntryOf(key), "value"))

\* C35: the first lines of the script do not end it; when they are through,
\* every key of QL_ENVS with a value that parses holds the value serialized
\* again, and every other variable is what it was, whatever the other
\* entries are and whether or not QL_ENVS is there and is JSON.
C35_KeysIndependent ==
  /\ loading.pc # "threw"
  /\ loading.pc = "done" =>
       \A key \in EnvKeys :
         penv[key] = IF Parsable(key)
                     THEN JSONstringify(JSONparse(PropOf(EntryOf(key), "value")))
                     ELSE loading.before[key]

\* the same where the global process exists
C35_UnderNode ==
  HasProcess(markers) =>
    /\ loading.pc # "threw"
    /\ loading.pc = "done" =>
         \A key \in EnvKeys :
           penv[key] = IF Parsable(key)
                       THEN JSONstringify(JSONparse(PropOf(EntryOf(key), "value")))
                       ELSE loading.before[key]

====
